---- MODULE Spec2Model ----
(***************************************************************************)
(* A model of the signal scoring and deduplication pipeline of the BTA     *)
(* outreach agent:                                                         *)
(*   - BreachCollector (src/src/collectors/breach_collector.py): the dedup *)
(*     ledger, filter_new_breaches, push_to_clay, mark_breaches_as_sent,   *)
(*     run_collection                        -> specification Spec         *)
(*   - EDPScorer (src/src/scoring/edp_scorer.py): the five sub-scores, the *)
(*     composite, assign_segment             -> SpecScore, SpecSegment     *)
(*   - BTAOrchestrator (src/src/main.py): score_new_companies,             *)
(*     generate_campaigns, run_full_cycle, shutdown -> SpecOrch            *)
(*   - _score_single_company called twice          -> SpecRescore          *)
(*   - run_daily_collection and the breach sources -> SpecDaily            *)
(*   - extract_domain_from_url (src/src/api/enriched_company_api.py) and   *)
(*     ClayClient.extract_domain (src/src/clay_client.py) -> SpecDomain    *)
(*   - RateLimiter.wait_if_needed (src/src/clay_client.py) -> SpecLimiter  *)
(*   - assign_segment called a second time         -> SpecResolve          *)
(*   - two runners of run_collection on one ledger file -> SpecShared      *)
(*   - the signals of JobPostingCollector                                  *)
(*     (src/src/collectors/job_collector.py), scored -> SpecJobs           *)
(* Scores are fixed-point: a sub-score s in [0,1] is the integer 100*s, a  *)
(* pain score p in [0,100] is the integer 1000*p, the last digit giving    *)
(* the side of the exact sum on which the float sum falls.                 *)
(***************************************************************************)
EXTENDS Integers, Sequences, FiniteSets, TLC

VARIABLES
    \* ---- BreachCollector and the ledger file (Spec) ----
    runners,          \* the collector processes that share the ledger file
    webhook_url,      \* config.CLAY_WEBHOOK_URL is configured
    ledger_file,      \* data/sent_breach_hashes.json as it is on disk
    bc_pc,            \* per runner: position inside run_collection
    all_breaches,     \* per runner: run_collection's all_breaches
    new_breaches,     \* per runner: run_collection's new_breaches
    batches,          \* per runner: the batches push_to_clay has sent so far
    sent_hashes,      \* per runner: mark_breaches_as_sent's local sent_hashes
    load_result,      \* per runner: how the last _load_sent_hashes ended
    save_result,      \* per runner: how the last _save_sent_hashes ended
    runs,             \* per runner: completed runs of run_collection
    classified_new,   \* per hash: how often filter_new_breaches called it new
    \* ---- EDPScorer on one company (SpecScore, SpecSegment) ----
    sc_pc,            \* position inside _score_single_company / the call
    sc_company,       \* the company_universe row of the domain, if any
    sc_signals,       \* the pain_signals rows of the domain
    sc_scores,        \* the scores argument of assign_segment
    sc_segment,       \* what assign_segment returned
    sc_result,        \* score_data
    \* ---- BTAOrchestrator (SpecOrch) ----
    orch_pc,                \* position of the orchestrator's one thread
    job,                    \* the scheduled job that is running
    jobs_run,               \* scheduled jobs completed
    company_universe,       \* per domain: absent, unscored or scored
    signal_processed,       \* ransomware signals flagged processed
    scored_prospects,       \* the rows of the scored_prospects table
    outreach_queue,         \* the rows of the outreach_queue table
    daily_limit_remaining,  \* self.daily_limit_remaining
    _shutdown_requested,    \* self._shutdown_requested is set
    unscored,               \* score_new_companies' unscored
    score_i,                \* index in unscored of the next company
    in_flight,              \* score_data between the two add_row calls
    qualified_prospects,    \* score_new_companies' qualified_prospects
    valid_prospects,        \* generate_campaigns' sorted valid_prospects
    campaign_k,             \* index in valid_prospects of the next one
    deferred,               \* history: cut off by the exhausted counter
    missed,                 \* history: deferred, absent from the next cycle
    shutdown_at,            \* history: where the shutdown signal arrived
    \* ---- The two domain extractors on one website (SpecDomain) ----
    dm_pc,            \* per extractor: "start" or "done"
    dm_signal_data,   \* the signal record that carries the website
    dm_url_domain,    \* what extract_domain_from_url returned
    dm_clay_domain,   \* what ClayClient.extract_domain returned
    \* ---- run_daily_collection and the breach sources (SpecDaily) ----
    dc_pc,            \* position inside run_daily_collection
    dc_response,      \* what the source answered to the last request
    dc_ca_breaches,   \* what collect_ca_breaches returned
    dc_hhs_breaches,  \* what collect_hhs_breaches returned
    dc_failed,        \* the sources whose collection hit an exception
    dc_results,       \* the values of the results dict evaluated so far
    \* ---- _score_single_company run again on one company (SpecRescore) ----
    rs_input,              \* the company row, its signals, the rounding
    rs_runs,               \* completed calls of _score_single_company
    rs_scored_prospects,   \* the rows of the scored_prospects table
    rs_company_universe,   \* the company's row: "unscored" or "scored"
    rs_once,               \* the two tables as the first call left them
    \* ---- RateLimiter.wait_if_needed (SpecLimiter) ----
    rl_clock,         \* time.time(), in tenths of a second
    rl_timestamps,    \* self.timestamps
    rl_returned,      \* history: the times at which the calls returned
    rl_oldest,        \* history: the oldest timestamp the last call waited on
    \* ---- assign_segment called again (SpecResolve) ----
    sg_hidden,        \* the company row and the days passed at the second call
    sg_again          \* what the second call of assign_segment returned

bcVars == <<runners, webhook_url, ledger_file, bc_pc, all_breaches, new_breaches,
            batches, sent_hashes, load_result, save_result, runs, classified_new>>

scVars == <<sc_pc, sc_company, sc_signals, sc_scores, sc_segment, sc_result>>

orVars == <<orch_pc, job, jobs_run, company_universe, signal_processed,
            scored_prospects, outreach_queue, daily_limit_remaining,
            _shutdown_requested, unscored, score_i, in_flight,
            qualified_prospects, valid_prospects, campaign_k, deferred, missed,
            shutdown_at>>

dmVars == <<dm_pc, dm_signal_data, dm_url_domain, dm_clay_domain>>

dcVars == <<dc_pc, dc_response, dc_ca_breaches, dc_hhs_breaches, dc_failed,
            dc_results>>

rsVars == <<rs_input, rs_runs, rs_scored_prospects, rs_company_universe,
            rs_once>>

rlVars == <<rl_clock, rl_timestamps, rl_returned, rl_oldest>>

sgVars == <<sg_hidden, sg_again>>

vars == <<bcVars, scVars, orVars, dmVars, dcVars, rsVars, rlVars, sgVars>>

\* What the steps of one component leave alone
outsideCollector == <<scVars, orVars, dmVars, dcVars, rsVars, rlVars, sgVars>>
outsideScorer == <<bcVars, orVars, dmVars, dcVars, rsVars, rlVars, sgVars>>
outsideDomain == <<bcVars, scVars, orVars, dcVars, rsVars, rlVars, sgVars>>
outsideDaily == <<bcVars, scVars, orVars, dmVars, rsVars, rlVars, sgVars>>
outsideRescore == <<bcVars, scVars, orVars, dmVars, dcVars, rlVars, sgVars>>
outsideLimiter == <<bcVars, scVars, orVars, dmVars, dcVars, rsVars, sgVars>>
outsideResolve == <<bcVars, scVars, orVars, dmVars, dcVars, rsVars, rlVars>>
outsideScoring == <<bcVars, orVars, dmVars, dcVars, rsVars, rlVars>>
outsideOrchestrator == <<bcVars, scVars, dmVars, dcVars, rsVars, rlVars, sgVars>>

(***************************************************************************)
(* Bounds of the model.                                                    *)
(***************************************************************************)
MaxBreaches == 3      \* records one run collects, all sources together
MaxRuns == 2          \* runs of run_collection per runner
BATCH_SIZE == 2       \* push_to_clay's batch_size (100 in the source)
MaxCount == 2         \* cap of the classified_new counters
MaxSignals == 2       \* pain_signals rows of one company
MaxJobs == 3          \* scheduled jobs the orchestrator runs
OUTREACH_DAILY_LIMIT == 2   \* config.OUTREACH_DAILY_LIMIT, 500 in the source
SCORING_BATCH_SIZE == 2     \* BTAOrchestrator.SCORING_BATCH_SIZE, 50 there

\* config.MIN_PAIN_SCORE
MIN_PAIN_SCORE == 70

\* contacts[:3] in generate_campaign
MAX_CONTACTS == 3

(***************************************************************************)
(* Helpers on sequences and sets.                                          *)
(***************************************************************************)
Min(a, b) == IF a < b THEN a ELSE b
Max(a, b) == IF a > b THEN a ELSE b

Range(s) == {s[i] : i \in 1..Len(s)}

SeqsUpTo(S, n) == UNION {[1..k -> S] : k \in 0..n}

Occurrences(s, x) == Cardinality({i \in 1..Len(s) : s[i] = x})

RECURSIVE SetToSeq(_)
SetToSeq(S) ==
    IF S = {} THEN <<>>
    ELSE LET x == CHOOSE y \in S : TRUE IN <<x>> \o SetToSeq(S \ {x})

(***************************************************************************)
(* Breach records as parse_breach_row and parse_hhs_row build them.        *)
(* signal_strength is in tenths. The two california_ag records are the     *)
(* same table row scraped at different ages: calculate_breach_recency_score*)
(* gives it another signal_strength, every key field is the same.          *)
(* The hhs_hipaa record has an empty date cell: parse_date returns it as   *)
(* it is.                                                                  *)
(***************************************************************************)
CARecords ==
    { [company_name |-> "Acme Corp", breach_date |-> "2024-01-15T00:00:00",
       source |-> "california_ag", signal_type |-> "post_breach",
       signal_strength |-> st] : st \in {10, 8} }

HHSRecords ==
    { [company_name |-> "Beta Health", breach_date |-> "",
       source |-> "hhs_hipaa", signal_type |-> "healthcare_breach",
       signal_strength |-> 8] }

BreachRecords == CARecords \cup HHSRecords

\* A hash that also covers signal_strength.
_get_breach_hash_WithStrength(breach) ==
    <<breach.company_name, breach.breach_date, breach.source,
      breach.signal_strength>>

\* hashlib.md5 of "company_name|breach_date|source": the digest is modelled
\* by the triple it is computed from (md5 taken as injective).
_get_breach_hash(breach) ==
    <<breach.company_name, breach.breach_date, breach.source>>

Hashes == {_get_breach_hash(b) : b \in BreachRecords}

HashesOf(breaches) == {_get_breach_hash(breaches[i]) : i \in 1..Len(breaches)}

(***************************************************************************)
(* The ledger file. kind "absent": no file; "json": a file holding the     *)
(* list sent_hashes; "corrupt": a file json.load cannot parse (truncated   *)
(* by an interrupted write).                                               *)
(***************************************************************************)
AbsentFile == [kind |-> "absent", sent_hashes |-> <<>>]
CorruptFile == [kind |-> "corrupt", sent_hashes |-> <<>>]
JsonFile(hashes) == [kind |-> "json", sent_hashes |-> hashes]

\* The hashes a reader of the file can recover from it.
PersistedHashes(file) ==
    IF file.kind = "json" THEN Range(file.sent_hashes) ELSE {}

\* A loader that, when reading fails, still hands back what the file held.
_load_sent_hashes_StaleOnError(file) ==
    CASE file.kind = "absent" -> {<<"ok", {}>>}
      [] file.kind = "corrupt" -> {<<"error", {}>>}
      [] OTHER -> {<<"ok", Range(file.sent_hashes)>>,
                   <<"error", Range(file.sent_hashes)>>}

\* _load_sent_hashes: the outcomes of one call, each <<result, set>>.
\* A missing file is an empty set; an unparseable file raises inside the
\* try and gives the empty set; an existing file may also fail to open or
\* read (OSError), which gives the empty set as well.
_load_sent_hashes(file) ==
    CASE file.kind = "absent" -> {<<"ok", {}>>}
      [] file.kind = "corrupt" -> {<<"error", {}>>}
      [] OTHER -> {<<"ok", Range(file.sent_hashes)>>, <<"error", {}>>}

\* _save_sent_hashes: the outcomes of one call, each <<result, file after>>.
\* open(..., 'w') may fail (the file is left as it was), or the write may
\* fail after open has truncated the file (json.dump raises: the exception
\* is swallowed and the file is left unparseable).
_save_sent_hashes(file, hashes) ==
    { <<"ok", JsonFile(SetToSeq(hashes))>>,
      <<"open_failed", file>>,
      <<"write_failed", CorruptFile>> }

\* A filter that forgets to compare with the ledger.
NotYetSent_IgnoreLedger(breaches, sent) == breaches

\* filter_new_breaches' loop: the records whose hash is not in sent.
NotYetSent(breaches, sent) ==
    SelectSeq(breaches, LAMBDA b : _get_breach_hash(b) \notin sent)

(***************************************************************************)
(* push_to_clay: consecutive batches of batch_size records.                *)
(***************************************************************************)
\* A batch count that rounds down.
TotalBatches_Floor(breaches) == Len(breaches) \div BATCH_SIZE

TotalBatches(breaches) == (Len(breaches) + BATCH_SIZE - 1) \div BATCH_SIZE

\* batch = breaches[i:i + batch_size] for the batch_num-th batch (1-based)
BatchRecords(breaches, batch_num) ==
    SubSeq(breaches, (batch_num - 1) * BATCH_SIZE + 1,
           Min(batch_num * BATCH_SIZE, Len(breaches)))

\* What the webhook may answer to one POST: a status code, or requests.post
\* raises (timeout, connection error) and there is no status.
Responses ==
    {[raised |-> FALSE, status_code |-> c] : c \in {200, 204, 500}}
    \cup {[raised |-> TRUE, status_code |-> 0]}

\* send_to_webhook's return value: True for status 200 alone
send_to_webhook(response) == ~response.raised /\ response.status_code = 200

\* The webhook_data['batch_info'] of one batch and the outcome of sending it.
BatchEntry(breaches, batch_num, response) ==
    [batch_number |-> batch_num,
     total_batches |-> TotalBatches(breaches),
     batch_size |-> Len(BatchRecords(breaches, batch_num)),
     records |-> BatchRecords(breaches, batch_num),
     response |-> response,
     accepted |-> send_to_webhook(response)]

(***************************************************************************)
(* BreachCollector.run_collection, one action per step, for runner p.      *)
(***************************************************************************)
AllRunners == {"orchestrator", "scheduled"}

\* What the two sources return together: all_breaches.extend(ca), then
\* all_breaches.extend(hhs). A source that fails returns [].
Collected ==
    {ca \o hhs : ca \in SeqsUpTo(CARecords, MaxBreaches),
                 hhs \in SeqsUpTo(HHSRecords, MaxBreaches)}

CollectedLists == {bs \in Collected : Len(bs) <= MaxBreaches}

bcLocals == <<all_breaches, new_breaches, batches, sent_hashes, load_result,
              save_result>>

\* collect_ca_breaches and collect_hhs_breaches
CollectBreaches(p) ==
    /\ p \in runners
    /\ bc_pc[p] = "idle"
    /\ runs[p] < MaxRuns
    /\ \E bs \in CollectedLists :
         all_breaches' = [all_breaches EXCEPT ![p] = bs]
    /\ new_breaches' = [new_breaches EXCEPT ![p] = <<>>]
    /\ batches' = [batches EXCEPT ![p] = <<>>]
    /\ sent_hashes' = [sent_hashes EXCEPT ![p] = {}]
    /\ load_result' = [load_result EXCEPT ![p] = "none"]
    /\ save_result' = [save_result EXCEPT ![p] = "none"]
    /\ bc_pc' = [bc_pc EXCEPT ![p] = "collected"]
    /\ UNCHANGED <<outsideCollector, runners, webhook_url, ledger_file, runs, classified_new>>

\* The counters of 'new' classifications after one filter_new_breaches.
CountNew(counts, new) ==
    [h \in Hashes |->
        Min(MaxCount, counts[h] + Occurrences([i \in 1..Len(new) |->
                                    _get_breach_hash(new[i])], h))]

\* filter_new_breaches, and run_collection's branch on its result
filter_new_breaches(p) ==
    /\ p \in runners
    /\ bc_pc[p] = "collected"
    /\ IF all_breaches[p] = <<>>
       THEN /\ new_breaches' = [new_breaches EXCEPT ![p] = <<>>]
            /\ UNCHANGED <<load_result, classified_new>>
            /\ bc_pc' = [bc_pc EXCEPT ![p] = "done"]
       ELSE \E loaded \in _load_sent_hashes(ledger_file) :
              LET new == NotYetSent(all_breaches[p], loaded[2]) IN
              /\ new_breaches' = [new_breaches EXCEPT ![p] = new]
              /\ load_result' = [load_result EXCEPT ![p] = loaded[1]]
              /\ classified_new' = CountNew(classified_new, new)
              /\ bc_pc' = [bc_pc EXCEPT
                             ![p] = IF new # <<>> THEN "pushing" ELSE "done"]
    /\ UNCHANGED <<outsideCollector, runners, webhook_url, ledger_file, all_breaches, batches,
                   sent_hashes, save_result, runs>>

\* push_to_clay without a webhook URL: a warning, nothing is sent
PushWithoutWebhook(p) ==
    /\ p \in runners
    /\ bc_pc[p] = "pushing"
    /\ ~webhook_url
    /\ bc_pc' = [bc_pc EXCEPT ![p] = "pushed"]
    /\ UNCHANGED <<outsideCollector, runners, webhook_url, ledger_file, bcLocals, runs,
                   classified_new>>

\* push_to_clay: one pass of the batch loop
SendBatch(p) ==
    /\ p \in runners
    /\ bc_pc[p] = "pushing"
    /\ webhook_url
    /\ Len(batches[p]) < TotalBatches(new_breaches[p])
    /\ \E response \in Responses :
         batches' = [batches EXCEPT ![p] =
            Append(@, BatchEntry(new_breaches[p], Len(@) + 1, response))]
    /\ UNCHANGED <<outsideCollector, runners, webhook_url, ledger_file, bc_pc, all_breaches,
                   new_breaches, sent_hashes, load_result, save_result, runs,
                   classified_new>>

\* push_to_clay: the batch loop is over
PushDone(p) ==
    /\ p \in runners
    /\ bc_pc[p] = "pushing"
    /\ webhook_url
    /\ Len(batches[p]) = TotalBatches(new_breaches[p])
    /\ bc_pc' = [bc_pc EXCEPT ![p] = "pushed"]
    /\ UNCHANGED <<outsideCollector, runners, webhook_url, ledger_file, bcLocals, runs,
                   classified_new>>

\* mark_breaches_as_sent, first half: load the ledger, add the hashes.
\* run_collection calls it whenever new_breaches is not empty, whatever
\* push_to_clay did (push_to_clay returns nothing).
MarkLoad(p) ==
    /\ p \in runners
    /\ bc_pc[p] = "pushed"
    /\ \E loaded \in _load_sent_hashes(ledger_file) :
         /\ sent_hashes' = [sent_hashes EXCEPT
                              ![p] = loaded[2] \cup HashesOf(new_breaches[p])]
         /\ load_result' = [load_result EXCEPT ![p] = loaded[1]]
    /\ bc_pc' = [bc_pc EXCEPT ![p] = "marking"]
    /\ UNCHANGED <<outsideCollector, runners, webhook_url, ledger_file, all_breaches,
                   new_breaches, batches, save_result, runs, classified_new>>

\* mark_breaches_as_sent, second half: write the ledger back
MarkSave(p) ==
    /\ p \in runners
    /\ bc_pc[p] = "marking"
    /\ \E saved \in _save_sent_hashes(ledger_file, sent_hashes[p]) :
         /\ ledger_file' = saved[2]
         /\ save_result' = [save_result EXCEPT ![p] = saved[1]]
    /\ bc_pc' = [bc_pc EXCEPT ![p] = "done"]
    /\ UNCHANGED <<outsideCollector, runners, webhook_url, all_breaches, new_breaches, batches,
                   sent_hashes, load_result, runs, classified_new>>

\* run_collection returns
CollectionComplete(p) ==
    /\ p \in runners
    /\ bc_pc[p] = "done"
    /\ bc_pc' = [bc_pc EXCEPT ![p] = "idle"]
    /\ runs' = [runs EXCEPT ![p] = @ + 1]
    /\ UNCHANGED <<outsideCollector, runners, webhook_url, ledger_file, bcLocals, classified_new>>

BcInit(active) ==
    /\ runners = active
    /\ webhook_url \in BOOLEAN
    /\ ledger_file = AbsentFile
    /\ bc_pc = [p \in AllRunners |-> "idle"]
    /\ all_breaches = [p \in AllRunners |-> <<>>]
    /\ new_breaches = [p \in AllRunners |-> <<>>]
    /\ batches = [p \in AllRunners |-> <<>>]
    /\ sent_hashes = [p \in AllRunners |-> {}]
    /\ load_result = [p \in AllRunners |-> "none"]
    /\ save_result = [p \in AllRunners |-> "none"]
    /\ runs = [p \in AllRunners |-> 0]
    /\ classified_new = [h \in Hashes |-> 0]

BcNext ==
    \E p \in AllRunners :
        \/ CollectBreaches(p)
        \/ filter_new_breaches(p)
        \/ PushWithoutWebhook(p)
        \/ SendBatch(p)
        \/ PushDone(p)
        \/ MarkLoad(p)
        \/ MarkSave(p)
        \/ CollectionComplete(p)

\* The collector is not running
BcOff ==
    /\ runners = {}
    /\ webhook_url = FALSE
    /\ ledger_file = AbsentFile
    /\ bc_pc = [p \in AllRunners |-> "idle"]
    /\ all_breaches = [p \in AllRunners |-> <<>>]
    /\ new_breaches = [p \in AllRunners |-> <<>>]
    /\ batches = [p \in AllRunners |-> <<>>]
    /\ sent_hashes = [p \in AllRunners |-> {}]
    /\ load_result = [p \in AllRunners |-> "none"]
    /\ save_result = [p \in AllRunners |-> "none"]
    /\ runs = [p \in AllRunners |-> 0]
    /\ classified_new = [h \in Hashes |-> 0]

\* No company is being scored
ScOff ==
    /\ sc_pc = "off"
    /\ sc_company = [keys |-> {}]
    /\ sc_signals = <<>>
    /\ sc_scores = [dwell_time |-> 0]
    /\ sc_segment = ""
    /\ sc_result = [raised |-> FALSE]

\* The orchestrator is not running
OrOff ==
    /\ orch_pc = "off"
    /\ job = "none"
    /\ jobs_run = 0
    /\ company_universe = <<>>
    /\ signal_processed = {}
    /\ scored_prospects = <<>>
    /\ outreach_queue = <<>>
    /\ daily_limit_remaining = 0
    /\ _shutdown_requested = FALSE
    /\ unscored = <<>>
    /\ score_i = 0
    /\ in_flight = <<>>
    /\ qualified_prospects = <<>>
    /\ valid_prospects = <<>>
    /\ campaign_k = 0
    /\ deferred = {}
    /\ missed = {}
    /\ shutdown_at = "none"

\* No domain extraction is under way.
DmOff ==
    /\ dm_pc = [url |-> "off", clay |-> "off"]
    /\ dm_signal_data = <<>>
    /\ dm_url_domain = <<>>
    /\ dm_clay_domain = <<>>

\* run_daily_collection is not running.
DcOff ==
    /\ dc_pc = "off"
    /\ dc_response = [kind |-> "none", rows |-> <<>>]
    /\ dc_ca_breaches = <<>>
    /\ dc_hhs_breaches = <<>>
    /\ dc_failed = {}
    /\ dc_results = <<>>

\* No company is being scored again.
RsOff ==
    /\ rs_input = <<>>
    /\ rs_runs = 0
    /\ rs_scored_prospects = <<>>
    /\ rs_company_universe = "absent"
    /\ rs_once = <<>>

\* No rate limiter is in use.
RlOff ==
    /\ rl_clock = 0
    /\ rl_timestamps = <<>>
    /\ rl_returned = <<>>
    /\ rl_oldest = -1

\* assign_segment is not called a second time.
SgOff ==
    /\ sg_hidden = <<>>
    /\ sg_again = ""

Init == BcInit({"orchestrator"}) /\ ScOff /\ OrOff /\ DmOff /\ DcOff /\ RsOff /\ RlOff /\ SgOff

Next == BcNext

Spec == Init /\ [][Next]_vars

\* The orchestrator (main.py, _collect_breach_data) and the scheduled breach
\* runner (scheduled_breach_runner.py) are two processes, each with a
\* BreachCollector of its own on the one file data/sent_breach_hashes.json.
\* The webhook URL is left unset: push_to_clay sends nothing, and
\* run_collection goes on to mark_breaches_as_sent as it does after a push.
\* Each runner has completed all of its runs but one, finding nothing to
\* collect, so the ledger file does not exist yet.
SharedInit ==
    /\ runners = AllRunners
    /\ webhook_url = FALSE
    /\ ledger_file = AbsentFile
    /\ bc_pc = [p \in AllRunners |-> "idle"]
    /\ all_breaches = [p \in AllRunners |-> <<>>]
    /\ new_breaches = [p \in AllRunners |-> <<>>]
    /\ batches = [p \in AllRunners |-> <<>>]
    /\ sent_hashes = [p \in AllRunners |-> {}]
    /\ load_result = [p \in AllRunners |-> "none"]
    /\ save_result = [p \in AllRunners |-> "none"]
    /\ runs = [p \in AllRunners |-> MaxRuns - 1]
    /\ classified_new = [h \in Hashes |-> 0]

InitShared == SharedInit /\ ScOff /\ OrOff /\ DmOff /\ DcOff /\ RsOff /\ RlOff /\ SgOff

NextShared ==
    \E p \in AllRunners :
        \/ CollectBreaches(p)
        \/ filter_new_breaches(p)
        \/ PushWithoutWebhook(p)
        \/ MarkLoad(p)
        \/ MarkSave(p)
        \/ CollectionComplete(p)

SpecShared == InitShared /\ [][NextShared]_vars

(***************************************************************************)
(* EDPScorer (src/src/scoring/edp_scorer.py).                              *)
(*                                                                         *)
(* A signal is a row of the pain_signals table. Its signal_date is one of  *)
(*   form "iso"     : an ISO string, days_ago days before now              *)
(*   form "empty"   : the string '' (an empty date cell, parse_date        *)
(*                    returns it unchanged)                                *)
(*   form "text"    : a string such as 'n/a' that is no date               *)
(*   form "missing" : the row has no signal_date                           *)
(* A company is a row of company_universe; keys is the set of fields the   *)
(* row has.                                                                *)
(***************************************************************************)
IsoDate(days_ago) == [form |-> "iso", days_ago |-> days_ago]
EmptyDate == [form |-> "empty", days_ago |-> 0]
TextDate == [form |-> "text", days_ago |-> 0]
MissingDate == [form |-> "missing", days_ago |-> 0]

\* Python's str order on signal_date values: '' is below every string, an
\* ISO string starts with a digit and is below a text starting with a
\* letter, and ISO strings of one format sort by time.
StrLess(d1, d2) ==
    CASE d1.form = "empty" -> d2.form # "empty"
      [] d1.form = "iso" ->
            \/ d2.form = "text"
            \/ d2.form = "iso" /\ d1.days_ago > d2.days_ago
      [] OTHER -> FALSE

\* datetime.fromisoformat accepts the value
ParsesAsIso(d) == d.form = "iso"

\* The substring tests on signal_type, evaluated on the signal types the
\* collectors of the repository emit.
SignalTypes ==
    {"post_breach", "healthcare_breach", "active_ransomware",
     "executive_vacancy_critical", "executive_vacancy_moderate",
     "skills_gap_critical", "compliance_vulnerability"}

\* word in signal_type
Contains(signal_type, word) ==
    CASE word = "breach" ->
            signal_type \in {"post_breach", "healthcare_breach"}
      [] word = "vacancy" ->
            signal_type \in {"executive_vacancy_critical",
                             "executive_vacancy_moderate"}
      [] word = "executive" ->
            signal_type \in {"executive_vacancy_critical",
                             "executive_vacancy_moderate"}
      [] word = "compliance" -> signal_type = "compliance_vulnerability"
      [] OTHER -> FALSE

\* [s for s in signals if word in s.get('signal_type', '')]
SignalsWith(signals, word) ==
    SelectSeq(signals, LAMBDA s : Contains(s.signal_type, word))

\* dict.get(key, default) on a company row
Get(row, key, default) == IF key \in row.keys THEN row[key] ELSE default

\* companies[0] if companies else {}
EmptyRow == [keys |-> {}, domain |-> "", industry |-> "", employee_count |-> 0]

\* get_company_info(domain) against a company_universe that holds the rows
\* of the set universe
get_company_info(universe, domain) ==
    IF \E c \in universe : c.domain = domain
    THEN CHOOSE c \in universe : c.domain = domain
    ELSE EmptyRow

\* A tech stack in which every tool is known to be present.
get_tech_stack_AllTools ==
    [has_mdr |-> TRUE, has_siem |-> TRUE, has_edr |-> TRUE,
     has_mssp |-> TRUE]

\* get_tech_stack: the placeholder, the same for every domain
get_tech_stack ==
    [has_mdr |-> FALSE, has_siem |-> FALSE, has_edr |-> FALSE,
     has_mssp |-> FALSE]

\* What calling a scoring function gives: a value, or an exception.
Returned(v) == [raised |-> FALSE, value |-> v]
Raised == [raised |-> TRUE, value |-> 0]

\* max(breach_signals, key=lambda x: x['signal_date']) followed by
\* datetime.fromisoformat(most_recent['signal_date']): the days since the
\* most recent breach signal. KeyError when a breach signal has no
\* signal_date, ValueError when the greatest signal_date string is no ISO
\* date.
DaysSinceMostRecent(breach_signals) ==
    IF \E i \in 1..Len(breach_signals) :
          breach_signals[i].signal_date.form = "missing"
    THEN Raised
    ELSE LET most_recent ==
               CHOOSE d \in {breach_signals[i].signal_date :
                                i \in 1..Len(breach_signals)} :
                  \A j \in 1..Len(breach_signals) :
                     ~StrLess(d, breach_signals[j].signal_date)
         IN IF ParsesAsIso(most_recent)
            THEN Returned(most_recent.days_ago)
            ELSE Raised

\* The recency band of calculate_dwell_score
DwellBand(days_since) ==
    IF days_since < 30 THEN 90
    ELSE IF days_since < 90 THEN 70
    ELSE IF days_since < 180 THEN 50
    ELSE 30

calculate_dwell_score(signals) ==
    LET breach_signals == SignalsWith(signals, "breach")
        days == DaysSinceMostRecent(breach_signals)
        tech_stack == get_tech_stack
        gaps == (IF ~tech_stack.has_mdr THEN 30 ELSE 0)
                + (IF ~tech_stack.has_siem THEN 20 ELSE 0)
                + (IF ~tech_stack.has_edr THEN 20 ELSE 0)
        vacancy == IF SignalsWith(signals, "vacancy") # <<>> THEN 20 ELSE 0
    IN  IF breach_signals # <<>> /\ days.raised
        THEN Raised
        ELSE Returned(Min(100,
                (IF breach_signals # <<>> THEN DwellBand(days.value) ELSE 0)
                + gaps + vacancy))

\* One vacancy signal's contribution to the skills gap score
VacancyBonus(vacancy) ==
    (IF vacancy.days_open > 90 THEN 40
     ELSE IF vacancy.days_open > 60 THEN 30
     ELSE IF vacancy.days_open > 30 THEN 20
     ELSE 0)
    + (IF Contains(vacancy.signal_type, "executive") THEN 20 ELSE 0)

RECURSIVE SumBonus(_)
SumBonus(vacancies) ==
    IF vacancies = <<>> THEN 0
    ELSE VacancyBonus(Head(vacancies)) + SumBonus(Tail(vacancies))

\* A skills gap score that is not capped at 1.0.
calculate_skills_gap_score_Uncapped(signals) ==
    SumBonus(SignalsWith(signals, "vacancy"))

calculate_skills_gap_score(signals) ==
    Min(100, SumBonus(SignalsWith(signals, "vacancy")))

calculate_after_hours_score(company) ==
    LET tech_stack == get_tech_stack
        score == 50
                 - (IF tech_stack.has_mdr THEN 40 ELSE 0)
                 - (IF tech_stack.has_mssp THEN 30 ELSE 0)
                 + (IF Get(company, "industry", "")
                         \in {"healthcare", "finance", "critical_infrastructure"}
                    THEN 20 ELSE 0)
    IN  Max(Min(score, 100), 0)

calculate_insurance_score(company, signals) ==
    Min(100,
        (IF SignalsWith(signals, "breach") # <<>> THEN 40 ELSE 0)
        + (IF Get(company, "industry", "") \in {"healthcare", "finance"}
           THEN 30 ELSE 0)
        + (IF SignalsWith(signals, "compliance") # <<>> THEN 30 ELSE 0))

\* industry_multipliers.get(industry, 1.0), in tenths
IndustryMultiplier(industry) ==
    CASE industry = "healthcare" -> 15
      [] industry = "finance" -> 13
      [] industry = "retail" -> 12
      [] industry \in {"manufacturing", "technology"} -> 11
      [] OTHER -> 10

calculate_breach_cost_score(company) ==
    LET employees == Get(company, "employee_count", 100)
        base_score == IF employees > 5000 THEN 80
                      ELSE IF employees > 1000 THEN 60
                      ELSE IF employees > 500 THEN 40
                      ELSE 30
    IN  Min((base_score * IndustryMultiplier(Get(company, "industry", "")))
               \div 10, 100)

\* self.weights with after_hours at 0.05
weights_LightAfterHours ==
    [dwell_time |-> 35, skills_gap |-> 25, after_hours |-> 5,
     insurance |-> 15, breach_cost |-> 10]

\* self.weights, in hundredths
EDPNames == <<"dwell_time", "skills_gap", "after_hours", "insurance",
              "breach_cost">>

weights ==
    [dwell_time |-> 35, skills_gap |-> 25, after_hours |-> 15,
     insurance |-> 15, breach_cost |-> 10]

\* sum(scores[k] * self.weights[k] for k in scores) * 100 in exact
\* arithmetic, as 100 * pain
WeightedTotal(scores) ==
    scores.dwell_time * weights.dwell_time
    + scores.skills_gap * weights.skills_gap
    + scores.after_hours * weights.after_hours
    + scores.insurance * weights.insurance
    + scores.breach_cost * weights.breach_cost

\* The float sum is the exact sum up to a rounding error far below a
\* thousandth of a point: 0.35 * 0.9 + 0.25 * 0.4 + ... comes out as
\* 69.99999999999999 where the exact sum is 70. pain_score is kept as
\* 1000 * pain, and round_off, one of -1, 0, 1, is the side of the exact sum
\* the float sum falls on. Float addition is monotone, all sub-scores 0 sum
\* to 0.0 and all sub-scores 1 to exactly 1.0, so the two ends are exact.
RoundOffs(scores) ==
    IF WeightedTotal(scores) \in {0, 10000} THEN {0} ELSE {-1, 0, 1}

FloatTotal(scores, round_off) == WeightedTotal(scores) * 10 + round_off

\* The last key, in the dict's order, whose value is the greatest.
PrimaryEdp_LastMax(scores) ==
    LET best == CHOOSE i \in 1..5 :
                  /\ \A j \in 1..5 : scores[EDPNames[j]] <= scores[EDPNames[i]]
                  /\ \A j \in (i + 1)..5 :
                        scores[EDPNames[j]] < scores[EDPNames[i]]
    IN  EDPNames[best]

\* max(scores, key=scores.get): the first key, in the dict's order, whose
\* value is the greatest
PrimaryEdp(scores) ==
    LET best == CHOOSE i \in 1..5 :
                  /\ \A j \in 1..5 : scores[EDPNames[j]] <= scores[EDPNames[i]]
                  /\ \A j \in 1..(i - 1) :
                        scores[EDPNames[j]] < scores[EDPNames[i]]
    IN  EDPNames[best]

Segments ==
    {"post_breach_survivor", "skills_gap_sufferer", "insurance_pressured",
     "resource_constrained", "overwhelmed_generalist", "general_prospect"}

\* A decision list that tests the skills gap rule before the breach rule.
assign_segment_SkillsGapFirst(universe, signals, scores) ==
    LET breach_signals == SignalsWith(signals, "breach")
        days == DaysSinceMostRecent(breach_signals)
        company == get_company_info(universe,
                      IF signals # <<>> THEN signals[1].domain ELSE "")
    IN  IF breach_signals # <<>> /\ days.raised THEN "exception"
        ELSE IF scores.skills_gap > 70 THEN "skills_gap_sufferer"
        ELSE IF breach_signals # <<>> /\ days.value < 90
             THEN "post_breach_survivor"
        ELSE IF scores.insurance > 70 THEN "insurance_pressured"
        ELSE IF scores.dwell_time > 60 THEN "resource_constrained"
        ELSE IF Get(company, "employee_count", 0) < 500
             THEN "overwhelmed_generalist"
        ELSE "general_prospect"

\* assign_segment(signals, scores) against the company_universe universe:
\* a segment, or the name of the exception it raises
assign_segment(universe, signals, scores) ==
    LET breach_signals == SignalsWith(signals, "breach")
        days == DaysSinceMostRecent(breach_signals)
        company == get_company_info(universe,
                      IF signals # <<>> THEN signals[1].domain ELSE "")
    IN  IF breach_signals # <<>> /\ days.raised THEN "exception"
        ELSE IF breach_signals # <<>> /\ days.value < 90
             THEN "post_breach_survivor"
        ELSE IF scores.skills_gap > 70 THEN "skills_gap_sufferer"
        ELSE IF scores.insurance > 70 THEN "insurance_pressured"
        ELSE IF scores.dwell_time > 60 THEN "resource_constrained"
        ELSE IF Get(company, "employee_count", 0) < 500
             THEN "overwhelmed_generalist"
        ELSE "general_prospect"

\* get_recommendation(score, segment), score as 1000 * pain
get_recommendation(score) ==
    IF score >= 90 * 1000 THEN "immediate_outreach_priority"
    ELSE IF score >= 75 * 1000 THEN "high_priority_outreach"
    ELSE IF score >= 60 * 1000 THEN "medium_priority_nurture"
    ELSE IF score >= 45 * 1000 THEN "low_priority_monitor"
    ELSE "not_qualified"

NoScores ==
    [dwell_time |-> 0, skills_gap |-> 0, after_hours |-> 0, insurance |-> 0,
     breach_cost |-> 0]

\* calculate_company_score raised: no score record
NoScoreData ==
    [raised |-> TRUE, domain |-> "", pain_score |-> 0,
     individual_scores |-> NoScores, primary_edp |-> "", segment |-> "",
     recommendation |-> ""]

\* calculate_company_score(domain): signals is what the pain_signals query
\* returns for the domain, universe the company_universe table, round_off
\* the rounding of the float sum
calculate_company_score(universe, domain, signals, round_off) ==
    LET company == get_company_info(universe, domain)
        dwell == calculate_dwell_score(signals)
        scores == [dwell_time |-> dwell.value,
                   skills_gap |-> calculate_skills_gap_score(signals),
                   after_hours |-> calculate_after_hours_score(company),
                   insurance |-> calculate_insurance_score(company, signals),
                   breach_cost |-> calculate_breach_cost_score(company)]
        segment == assign_segment(universe, signals, scores)
    IN  IF dwell.raised \/ segment = "exception"
        THEN NoScoreData
        ELSE [raised |-> FALSE,
              domain |-> domain,
              pain_score |-> FloatTotal(scores, round_off),
              individual_scores |-> scores,
              primary_edp |-> PrimaryEdp(scores),
              segment |-> segment,
              recommendation |->
                  get_recommendation(FloatTotal(scores, round_off))]

(***************************************************************************)
(* Scoring one company: BTAOrchestrator._score_single_company up to the    *)
(* threshold test (SpecScore), and EDPScorer.assign_segment called with    *)
(* given scores (SpecSegment). Every signal and the company row carry the  *)
(* domain acme.com.                                                        *)
(***************************************************************************)
SignalOf(domain, signal_type, signal_date, days_open) ==
    [domain |-> domain, signal_type |-> signal_type,
     signal_date |-> signal_date, days_open |-> days_open]

Signal(signal_type, signal_date, days_open) ==
    SignalOf("acme.com", signal_type, signal_date, days_open)

\* pain_signals rows as the collectors write them; days_open is
\* raw_data.days_open, 0 where raw_data has none
SignalRows ==
    {Signal("post_breach", IsoDate(10), 0),
     Signal("post_breach", IsoDate(100), 0),
     Signal("post_breach", IsoDate(200), 0),
     Signal("post_breach", EmptyDate, 0),
     Signal("post_breach", TextDate, 0),
     Signal("healthcare_breach", MissingDate, 0),
     Signal("active_ransomware", IsoDate(1), 0),
     Signal("executive_vacancy_critical", IsoDate(3), 100),
     Signal("executive_vacancy_moderate", IsoDate(3), 45),
     Signal("skills_gap_critical", IsoDate(3), 100),
     Signal("compliance_vulnerability", IsoDate(5), 0),
     Signal("compliance_vulnerability", MissingDate, 0)}

SignalSets == SeqsUpTo(SignalRows, MaxSignals)

Industries == {"healthcare", "critical_infrastructure", "retail"}

EmployeeCounts == {100, 600, 2000, 6000}

\* A company_universe row with the given fields
RowOf(domain, fields, industry, employee_count) ==
    [keys |-> {"domain"} \cup fields, domain |-> domain,
     industry |-> industry, employee_count |-> employee_count]

\* A company_universe row of acme.com
CompanyRow(fields, industry, employee_count) ==
    RowOf("acme.com", fields, industry, employee_count)

\* The rows company_universe may hold for acme.com; EmptyRow: it holds none
CompanyRows ==
    {CompanyRow({"industry", "employee_count"}, i, e) :
        i \in Industries, e \in EmployeeCounts}
    \cup {CompanyRow({"industry"}, i, 0) : i \in Industries}
    \cup {CompanyRow({"employee_count"}, "", e) : e \in EmployeeCounts}
    \cup {CompanyRow({}, "", 0), EmptyRow}

\* The company_universe table that holds the row, if there is one
Universe(company) == IF company.keys = {} THEN {} ELSE {company}

NoOverride ==
    [applies |-> FALSE, pain_score |-> 0, primary_edp |-> "", segment |-> ""]

\* [s for s in signals if s.get('signal_type') == 'active_ransomware']
HasRansomwareSignal(signals) ==
    \E i \in 1..Len(signals) : signals[i].signal_type = "active_ransomware"

\* An override that leaves the computed primary_edp in place.
_process_ransomware_signals_KeepEdp(signals) ==
    IF HasRansomwareSignal(signals)
    THEN [applies |-> TRUE, pain_score |-> 100 * 1000,
          primary_edp |-> "dwell_time",
          segment |-> "post_breach_survivor"]
    ELSE NoOverride

_process_ransomware_signals(signals) ==
    IF HasRansomwareSignal(signals)
    THEN [applies |-> TRUE, pain_score |-> 100 * 1000,
          primary_edp |-> "active_ransomware",
          segment |-> "post_breach_survivor"]
    ELSE NoOverride

\* score_data.update(ransomware_override) when there is an override
WithOverride(score_data, ransomware_override) ==
    IF ransomware_override.applies
    THEN [score_data EXCEPT !.pain_score = ransomware_override.pain_score,
                            !.primary_edp = ransomware_override.primary_edp,
                            !.segment = ransomware_override.segment]
    ELSE score_data

\* score_data as _score_single_company has it at its threshold test
ScoreData(universe, domain, signals, round_off) ==
    LET score_data == calculate_company_score(universe, domain, signals,
                                              round_off)
    IN  IF score_data.raised THEN score_data
        ELSE WithOverride(score_data, _process_ransomware_signals(signals))

\* score_data = self.scorer.calculate_company_score(company['domain'])
CalculateScore ==
    /\ sc_pc = "start"
    /\ \E round_off \in {-1, 0, 1} :
         LET score_data == calculate_company_score(Universe(sc_company),
                              "acme.com", sc_signals, round_off)
         IN  /\ score_data.raised
                \/ round_off \in RoundOffs(score_data.individual_scores)
             /\ sc_result' = score_data
    /\ sc_pc' = IF sc_result'.raised THEN "failed" ELSE "calculated"
    /\ UNCHANGED <<outsideScorer, sc_company, sc_signals, sc_scores, sc_segment>>

\* ransomware_override = ...; if ransomware_override: score_data.update(...)
RansomwareOverride ==
    /\ sc_pc = "calculated"
    /\ sc_result' = WithOverride(sc_result,
                                 _process_ransomware_signals(sc_signals))
    /\ sc_pc' = "final"
    /\ UNCHANGED <<outsideScorer, sc_company, sc_signals, sc_scores, sc_segment>>

ScoreInit ==
    /\ sc_pc = "start"
    /\ sc_company \in CompanyRows
    /\ sc_signals \in SignalSets
    /\ sc_scores = NoScores
    /\ sc_segment = ""
    /\ sc_result = NoScoreData

InitScore == BcOff /\ ScoreInit /\ OrOff /\ DmOff /\ DcOff /\ RsOff /\ RlOff /\ SgOff

NextScore ==
    \/ CalculateScore
    \/ RansomwareOverride

SpecScore == InitScore /\ [][NextScore]_vars

\* The scores dicts assign_segment is called with: each score that a rule
\* tests, at the rule's threshold and above it
ScoreGrid ==
    {[NoScores EXCEPT !.dwell_time = d, !.skills_gap = s, !.insurance = i] :
        d \in {60, 70}, s \in {70, 95}, i \in {70, 100}}

SegmentCompanyRows ==
    {CompanyRow({"employee_count"}, "", e) : e \in {100, 499, 500}}
    \cup {CompanyRow({}, "", 0), EmptyRow}

\* segment = self.assign_segment(signals, scores)
AssignSegment ==
    /\ sc_pc = "start"
    /\ sc_segment' = assign_segment(Universe(sc_company), sc_signals, sc_scores)
    /\ sc_pc' = "assigned"
    /\ UNCHANGED <<outsideScorer, sc_company, sc_signals, sc_scores, sc_result>>

SegmentInit ==
    /\ sc_pc = "start"
    /\ sc_company \in SegmentCompanyRows
    /\ sc_signals \in SignalSets
    /\ sc_scores \in ScoreGrid
    /\ sc_segment = ""
    /\ sc_result = NoScoreData

InitSegment == BcOff /\ SegmentInit /\ OrOff /\ DmOff /\ DcOff /\ RsOff /\ RlOff /\ SgOff

NextSegment == AssignSegment

SpecSegment == InitSegment /\ [][NextSegment]_vars

(***************************************************************************)
(* BTAOrchestrator (src/src/main.py): the scheduler's jobs run_full_cycle, *)
(* score_new_companies and check_urgent_signals on one thread, and the     *)
(* signal handler. The datastore merges an add_row on company_universe     *)
(* into the row of the same domain, as the query {'scored': False} of      *)
(* _get_unscored_companies expects, and appends to the other tables.       *)
(***************************************************************************)
Domains == <<"hot.example", "victim.example", "quiet.example", "crash.example">>

\* The company_universe row of each company
RowFor(domain) ==
    CASE domain = "victim.example" ->
            RowOf(domain, {"industry", "employee_count"}, "retail", 600)
      [] domain = "hot.example" ->
            RowOf(domain, {"industry", "employee_count"}, "healthcare", 6000)
      [] OTHER -> RowOf(domain, {}, "", 0)

\* The pain_signals rows of each company
SignalsFor(domain) ==
    CASE domain = "victim.example" ->
            <<SignalOf(domain, "active_ransomware", IsoDate(1), 0)>>
      [] domain = "hot.example" ->
            <<SignalOf(domain, "post_breach", IsoDate(10), 0),
              SignalOf(domain, "executive_vacancy_critical", IsoDate(3), 100)>>
      [] domain = "crash.example" ->
            <<SignalOf(domain, "healthcare_breach", MissingDate, 0)>>
      [] OTHER -> <<>>

\* A variant of the check of the shutdown event that never sees it set.
shutdown_is_set_Never(event) == FALSE

\* self._shutdown_requested.is_set()
shutdown_is_set(event) == event

\* A variant of the counter test that never finds the counter exhausted.
limit_reached_Never(remaining) == FALSE

\* self.daily_limit_remaining <= 0
limit_reached(remaining) == remaining <= 0

\* list.sort(key=pain_score, reverse=True): stable, highest first
RECURSIVE InsertByPain(_, _)
InsertByPain(sorted, prospect) ==
    IF sorted = <<>> THEN <<prospect>>
    ELSE IF Head(sorted).pain_score >= prospect.pain_score
         THEN <<Head(sorted)>> \o InsertByPain(Tail(sorted), prospect)
         ELSE <<prospect>> \o sorted

\* valid_prospects left in the order they were returned in.
SortByPain_Unsorted(prospects) == prospects

RECURSIVE SortByPain(_)
SortByPain(prospects) ==
    IF prospects = <<>> THEN <<>>
    ELSE InsertByPain(SortByPain(SubSeq(prospects, 1, Len(prospects) - 1)),
                      prospects[Len(prospects)])

\* The domains of a list of rows
DomainsOf(rows) == {rows[n].domain : n \in 1..Len(rows)}

\* What a job leaves as it was
orTables == <<company_universe, signal_processed, scored_prospects,
              outreach_queue>>
orScoring == <<unscored, score_i, in_flight, qualified_prospects>>
orHistory == <<deferred, missed, shutdown_at>>

\* signal_handler / request_shutdown: SIGINT or SIGTERM arrives
RequestShutdown ==
    /\ orch_pc # "stopped"
    /\ ~_shutdown_requested
    /\ _shutdown_requested' = TRUE
    /\ shutdown_at' = orch_pc
    /\ UNCHANGED <<outsideOrchestrator, orch_pc, job, jobs_run, orTables,
                   daily_limit_remaining, orScoring, valid_prospects,
                   campaign_k, deferred, missed>>

\* run_full_cycle up to score_new_companies: the counter is reset and
\* run_daily_collection brings new companies into company_universe. The
\* first job is the initial cycle of start_scheduler.
RunFullCycle ==
    /\ orch_pc = "scheduler"
    /\ ~shutdown_is_set(_shutdown_requested) \/ jobs_run = 0
    /\ jobs_run < MaxJobs
    /\ job' = "full_cycle"
    /\ daily_limit_remaining' = OUTREACH_DAILY_LIMIT
    /\ \E arrived \in SUBSET {d \in Range(Domains) :
                                 company_universe[d] = "absent"} :
         company_universe' =
            [d \in Range(Domains) |->
                IF d \in arrived THEN "unscored" ELSE company_universe[d]]
    /\ orch_pc' = "score_query"
    /\ UNCHANGED <<outsideOrchestrator, jobs_run, signal_processed,
                   scored_prospects, outreach_queue, _shutdown_requested,
                   orScoring, valid_prospects, campaign_k, orHistory>>

\* The scheduler runs score_new_companies on its own (10:00 and 16:00)
RunScoringJob ==
    /\ orch_pc = "scheduler"
    /\ ~shutdown_is_set(_shutdown_requested)
    /\ 0 < jobs_run /\ jobs_run < MaxJobs
    /\ job' = "score_only"
    /\ orch_pc' = "score_query"
    /\ UNCHANGED <<outsideOrchestrator, jobs_run, orTables,
                   daily_limit_remaining, _shutdown_requested, orScoring,
                   valid_prospects, campaign_k, orHistory>>

\* check_urgent_signals up to generate_campaigns(urgent_prospects)
check_urgent_signals ==
    /\ orch_pc = "scheduler"
    /\ ~shutdown_is_set(_shutdown_requested)
    /\ 0 < jobs_run /\ jobs_run < MaxJobs
    /\ LET urgent_companies ==
             SelectSeq(Domains,
                LAMBDA d : /\ company_universe[d] # "absent"
                           /\ HasRansomwareSignal(SignalsFor(d))
                           /\ d \notin signal_processed)
           urgent_prospects ==
             [n \in 1..Len(urgent_companies) |->
                [domain |-> urgent_companies[n], pain_score |-> 100 * 1000,
                 primary_edp |-> "active_ransomware"]]
       IN  /\ signal_processed' = signal_processed \cup Range(urgent_companies)
           /\ IF urgent_companies = <<>>
              THEN /\ jobs_run' = jobs_run + 1
                   /\ UNCHANGED <<orch_pc, job, qualified_prospects>>
              ELSE /\ job' = "urgent"
                   /\ qualified_prospects' = urgent_prospects
                   /\ orch_pc' = "campaigns"
                   /\ UNCHANGED jobs_run
    /\ UNCHANGED <<outsideOrchestrator, company_universe, scored_prospects,
                   outreach_queue, daily_limit_remaining, _shutdown_requested,
                   unscored, score_i, in_flight, valid_prospects, campaign_k,
                   orHistory>>

\* The return of a job to the scheduler loop
BackToScheduler ==
    /\ orch_pc' = "scheduler"
    /\ job' = "none"
    /\ jobs_run' = jobs_run + 1

\* score_new_companies: unscored = self._get_unscored_companies()
GetUnscored ==
    /\ orch_pc = "score_query"
    /\ unscored' = SelectSeq(Domains,
                          LAMBDA d : company_universe[d] = "unscored")
    /\ score_i' = 1
    /\ qualified_prospects' = <<>>
    /\ orch_pc' = IF unscored' = <<>> THEN "scored" ELSE "score_loop"
    /\ UNCHANGED <<outsideOrchestrator, job, jobs_run, orTables,
                   daily_limit_remaining, _shutdown_requested, in_flight,
                   valid_prospects, campaign_k, orHistory>>

\* Where the inner loop goes after the company at score_i: to the end of
\* the batch after its last company, else to the next company
AfterCompany ==
    IF score_i % SCORING_BATCH_SIZE = 0 \/ score_i = Len(unscored)
    THEN "batch_end" ELSE "score_loop"

\* for company in batch: the shutdown test, then _score_single_company up
\* to its first add_row
ScoreCompany ==
    /\ orch_pc = "score_loop"
    /\ IF shutdown_is_set(_shutdown_requested)
       THEN /\ orch_pc' = "batch_end"
            /\ UNCHANGED <<company_universe, scored_prospects, score_i,
                           in_flight>>
       ELSE \E round_off \in {-1, 0, 1} :
              LET domain == unscored[score_i]
                  score_data == ScoreData({RowFor(domain)}, domain,
                                          SignalsFor(domain), round_off)
              IN  /\ score_data.raised
                     \/ round_off \in RoundOffs(score_data.individual_scores)
                  /\ IF score_data.raised
                     THEN /\ orch_pc' = AfterCompany
                          /\ score_i' = score_i + 1
                          /\ UNCHANGED <<company_universe, scored_prospects,
                                         in_flight>>
                     ELSE IF score_data.pain_score >= MIN_PAIN_SCORE * 1000
                     THEN /\ scored_prospects' =
                                Append(scored_prospects, score_data)
                          /\ in_flight' = <<score_data>>
                          /\ orch_pc' = "flagging"
                          /\ UNCHANGED <<company_universe, score_i>>
                     ELSE /\ company_universe' =
                                [company_universe EXCEPT ![domain] = "scored"]
                          /\ orch_pc' = AfterCompany
                          /\ score_i' = score_i + 1
                          /\ UNCHANGED <<scored_prospects, in_flight>>
    /\ UNCHANGED <<outsideOrchestrator, job, jobs_run, signal_processed,
                   outreach_queue, daily_limit_remaining, _shutdown_requested,
                   unscored, qualified_prospects, valid_prospects, campaign_k,
                   orHistory>>

\* _score_single_company's second add_row, its return, and
\* qualified_prospects.append(scored_prospect)
FlagScored ==
    /\ orch_pc = "flagging"
    /\ company_universe' =
          [company_universe EXCEPT ![in_flight[1].domain] = "scored"]
    /\ qualified_prospects' = Append(qualified_prospects, in_flight[1])
    /\ in_flight' = <<>>
    /\ orch_pc' = AfterCompany
    /\ score_i' = score_i + 1
    /\ UNCHANGED <<outsideOrchestrator, job, jobs_run, signal_processed,
                   scored_prospects, outreach_queue, daily_limit_remaining,
                   _shutdown_requested, unscored, valid_prospects, campaign_k,
                   orHistory>>

\* The shutdown test after a batch, and the next batch if there is one
BatchEnd ==
    /\ orch_pc = "batch_end"
    /\ orch_pc' = IF shutdown_is_set(_shutdown_requested)
                     \/ score_i > Len(unscored)
                  THEN "scored" ELSE "score_loop"
    /\ UNCHANGED <<outsideOrchestrator, job, jobs_run, orTables,
                   daily_limit_remaining, _shutdown_requested, orScoring,
                   valid_prospects, campaign_k, orHistory>>

\* score_new_companies returns qualified_prospects: to run_full_cycle, which
\* hands them to generate_campaigns, or to the scheduler, which drops them
ScoringReturns ==
    /\ orch_pc = "scored"
    /\ IF job = "full_cycle"
       THEN /\ orch_pc' = "campaigns"
            /\ UNCHANGED <<job, jobs_run>>
       ELSE BackToScheduler
    /\ UNCHANGED <<outsideOrchestrator, orTables, daily_limit_remaining,
                   _shutdown_requested, orScoring, valid_prospects, campaign_k,
                   orHistory>>

\* generate_campaigns up to its loop: validation and the sort. A company
\* that an earlier run cut off is offered again if it is in prospects; it
\* is missed if it is not in those of a full cycle that ran undisturbed.
generate_campaigns ==
    /\ orch_pc = "campaigns"
    /\ valid_prospects' = SortByPain(qualified_prospects)
    /\ campaign_k' = 1
    /\ IF qualified_prospects = <<>>
       THEN BackToScheduler
       ELSE /\ orch_pc' = "campaign_loop"
            /\ UNCHANGED <<job, jobs_run>>
    /\ deferred' = deferred \ DomainsOf(qualified_prospects)
    /\ missed' = IF job = "full_cycle" /\ ~_shutdown_requested
                 THEN missed \cup (deferred \ DomainsOf(qualified_prospects))
                 ELSE missed
    /\ UNCHANGED <<outsideOrchestrator, orTables, daily_limit_remaining,
                   _shutdown_requested, orScoring, shutdown_at>>

\* One turn of for prospect in valid_prospects: the two tests that leave
\* the loop, else the campaigns of the prospect, one per contact, each
\* written to outreach_queue and counted off the limit
CampaignTurn ==
    /\ orch_pc = "campaign_loop"
    /\ IF campaign_k > Len(valid_prospects)
          \/ shutdown_is_set(_shutdown_requested)
       THEN /\ BackToScheduler
            /\ UNCHANGED <<outreach_queue, daily_limit_remaining, campaign_k,
                           deferred>>
       ELSE IF limit_reached(daily_limit_remaining)
       THEN /\ BackToScheduler
            /\ deferred' = deferred \cup
                  {valid_prospects[n].domain :
                      n \in campaign_k..Len(valid_prospects)}
            /\ UNCHANGED <<outreach_queue, daily_limit_remaining, campaign_k>>
       ELSE \E contacts \in 1..MAX_CONTACTS :
              /\ outreach_queue' = outreach_queue \o
                    [n \in 1..contacts |->
                        [domain |-> valid_prospects[campaign_k].domain,
                         contact |-> n]]
              /\ daily_limit_remaining' = daily_limit_remaining - contacts
              /\ campaign_k' = campaign_k + 1
              /\ UNCHANGED <<orch_pc, job, jobs_run, deferred>>
    /\ UNCHANGED <<outsideOrchestrator, company_universe, signal_processed,
                   scored_prospects, _shutdown_requested, orScoring,
                   valid_prospects, missed, shutdown_at>>

\* while not self._shutdown_requested.is_set(): the loop ends
SchedulerStops ==
    /\ orch_pc = "scheduler"
    /\ jobs_run > 0
    /\ shutdown_is_set(_shutdown_requested)
    /\ orch_pc' = "stopped"
    /\ UNCHANGED <<outsideOrchestrator, job, jobs_run, orTables,
                   daily_limit_remaining, _shutdown_requested, orScoring,
                   valid_prospects, campaign_k, orHistory>>

OrchInit ==
    /\ orch_pc = "scheduler"
    /\ job = "none"
    /\ jobs_run = 0
    /\ company_universe = [d \in Range(Domains) |-> "absent"]
    /\ signal_processed = {}
    /\ scored_prospects = <<>>
    /\ outreach_queue = <<>>
    /\ daily_limit_remaining = OUTREACH_DAILY_LIMIT
    /\ _shutdown_requested = FALSE
    /\ unscored = <<>>
    /\ score_i = 0
    /\ in_flight = <<>>
    /\ qualified_prospects = <<>>
    /\ valid_prospects = <<>>
    /\ campaign_k = 0
    /\ deferred = {}
    /\ missed = {}
    /\ shutdown_at = "none"

InitOrch == BcOff /\ ScOff /\ OrchInit /\ DmOff /\ DcOff /\ RsOff /\ RlOff /\ SgOff

NextOrch ==
    \/ RequestShutdown
    \/ RunFullCycle
    \/ RunScoringJob
    \/ check_urgent_signals
    \/ GetUnscored
    \/ ScoreCompany
    \/ FlagScored
    \/ BatchEnd
    \/ ScoringReturns
    \/ generate_campaigns
    \/ CampaignTurn
    \/ SchedulerStops

SpecOrch == InitOrch /\ [][NextOrch]_vars

(***************************************************************************)
(* The domain extractors: extract_domain_from_url                          *)
(* (src/src/api/enriched_company_api.py) and ClayClient.extract_domain     *)
(* (src/src/clay_client.py), each applied to the website of one record     *)
(* (SpecDomain). A string is the sequence of its characters.               *)
(***************************************************************************)
\* s[i:].startswith(old)
StartsWithAt(s, i, old) ==
    /\ i + Len(old) - 1 <= Len(s)
    /\ SubSeq(s, i, i + Len(old) - 1) = old

RECURSIVE ReplaceFrom(_, _, _)
ReplaceFrom(s, i, old) ==
    IF i > Len(s) THEN <<>>
    ELSE IF StartsWithAt(s, i, old)
         THEN ReplaceFrom(s, i + Len(old), old)
         ELSE <<s[i]>> \o ReplaceFrom(s, i + 1, old)

\* s.replace(old, ''): every occurrence of old, from the left, removed
replace(s, old) == ReplaceFrom(s, 1, old)

\* s.rstrip('/')
RECURSIVE rstrip(_)
rstrip(s) ==
    IF s # <<>> /\ s[Len(s)] = "/"
    THEN rstrip(SubSeq(s, 1, Len(s) - 1))
    ELSE s

\* s.split('/')[0]
split0(s) ==
    IF \E i \in 1..Len(s) : s[i] = "/"
    THEN SubSeq(s, 1, (CHOOSE i \in 1..Len(s) :
                          s[i] = "/" /\ \A j \in 1..(i - 1) : s[j] # "/") - 1)
    ELSE s

\* s.lower(), on the capitals the inputs use
lower(s) ==
    [i \in 1..Len(s) |->
        CASE s[i] = "A" -> "a"
          [] s[i] = "C" -> "c"
          [] s[i] = "E" -> "e"
          [] OTHER -> s[i]]

\* None
None == <<"None">>

https == <<"h", "t", "t", "p", "s", ":", "/", "/">>
http == <<"h", "t", "t", "p", ":", "/", "/">>
www == <<"w", "w", "w", ".">>
example_com == <<"e", "x", "a", "m", "p", "l", "e", ".", "c", "o", "m">>
Example_com == <<"E", "x", "a", "m", "p", "l", "e", ".", "c", "o", "m">>
acme_com == <<"a", "c", "m", "e", ".", "c", "o", "m">>
Acme_com == <<"A", "c", "m", "e", ".", "c", "o", "m">>
Acme_Corp == <<"A", "c", "m", "e", " ", "C", "o", "r", "p">>

\* extract_domain_from_url(url)
extract_domain_from_url(url) ==
    IF url = None \/ url = <<>>
    THEN <<>>
    ELSE rstrip(replace(replace(replace(replace(url, https \o www),
                                        http \o www),
                                https),
                        http))

\* ClayClient.extract_domain(signal_data); raw_data is a dict whenever the
\* record has one
extract_domain(signal_data) ==
    IF /\ "website" \in signal_data.keys
       /\ signal_data.website # None
       /\ signal_data.website # <<>>
    THEN split0(replace(replace(replace(signal_data.website, www), http),
                        https))
    ELSE IF "domain" \in signal_data.keys
    THEN signal_data.domain
    ELSE IF Get(signal_data, "company_name", <<>>) # <<>>
    THEN replace(replace(replace(replace(lower(signal_data.company_name),
                                         <<" ">>),
                                 <<"i", "n", "c">>),
                         <<"l", "l", "c">>),
                 <<"c", "o", "r", "p">>)
         \o <<".", "c", "o", "m">>
    ELSE None

\* The website strings of the records: with or without a scheme, a www.
\* prefix, capitals, a trailing slash or a path
Websites ==
    {scheme \o prefix \o host \o tail :
        scheme \in {<<>>, http, https},
        prefix \in {<<>>, www},
        host \in {example_com, Example_com, acme_com, Acme_com},
        tail \in {<<>>, <<"/">>, <<"/", "a">>}}
    \cup {<<>>, None}

\* The records: raw_data with a website or without, with or without a
\* domain and a company name
SignalData ==
    {[keys |-> {"website"} \cup more, website |-> w, domain |-> acme_com,
      company_name |-> Acme_Corp] :
        w \in Websites, more \in SUBSET {"domain", "company_name"}}
    \cup {[keys |-> more, website |-> None, domain |-> acme_com,
           company_name |-> Acme_Corp] :
             more \in SUBSET {"domain", "company_name"}}

\* websiteUrl of the enriched company: the website of the record
websiteUrl(signal_data) == Get(signal_data, "website", None)

\* 'domain': extract_domain_from_url(company.websiteUrl)
ExtractDomainFromUrl ==
    /\ dm_pc.url = "start"
    /\ dm_url_domain' = extract_domain_from_url(websiteUrl(dm_signal_data))
    /\ dm_pc' = [dm_pc EXCEPT !.url = "done"]
    /\ UNCHANGED <<outsideDomain, dm_signal_data, dm_clay_domain>>

\* domain = self.extract_domain(signal_data)
ClayExtractDomain ==
    /\ dm_pc.clay = "start"
    /\ dm_clay_domain' = extract_domain(dm_signal_data)
    /\ dm_pc' = [dm_pc EXCEPT !.clay = "done"]
    /\ UNCHANGED <<outsideDomain, dm_signal_data, dm_url_domain>>

DomainInit ==
    /\ dm_pc = [url |-> "start", clay |-> "start"]
    /\ dm_signal_data \in SignalData
    /\ dm_url_domain = <<>>
    /\ dm_clay_domain = <<>>

InitDomain == BcOff /\ ScOff /\ OrOff /\ DomainInit /\ DcOff /\ RsOff /\ RlOff /\ SgOff

NextDomain ==
    \/ ExtractDomainFromUrl
    \/ ClayExtractDomain

SpecDomain == InitDomain /\ [][NextDomain]_vars

(***************************************************************************)
(* run_daily_collection (src/src/main.py) and the two breach sources of    *)
(* BreachCollector.run_collection (SpecDaily). A source answers with a     *)
(* page that holds a table of rows, with a page that holds no table, or    *)
(* the request raises. The collectors behind the other four wrappers are   *)
(* taken by their outcome: the call returns or raises.                     *)
(***************************************************************************)
MaxRows == 2
MaxHHSRows == 4

\* company_name.lower(), on the cell texts of the inputs
LowerName(name) ==
    CASE name = "Organization Name" -> "organization name"
      [] name = "Name of Covered Entity" -> "name of covered entity"
      [] name = "Loading..." -> "loading..."
      [] name = "Acme Corp" -> "acme corp"
      [] name = "Beta Health" -> "beta health"
      [] OTHER -> name

\* return None
NoRecord == [company_name |-> "", breach_date |-> "", source |-> "",
             signal_type |-> "", signal_strength |-> 0]

\* The rows of the California AG table: cells is len(row.find_all('td')),
\* company_name the text of the first cell
CARows ==
    {[cells |-> c, company_name |-> n] :
        c \in {2, 3}, n \in {"", "Organization Name", "Acme Corp"}}

\* parse_breach_row(row)
parse_breach_row(row) ==
    IF row.cells >= 3
    THEN IF row.company_name = ""
            \/ LowerName(row.company_name) \in {"", "organization name"}
         THEN NoRecord
         ELSE [company_name |-> row.company_name,
               breach_date |-> "2024-01-15T00:00:00",
               source |-> "california_ag", signal_type |-> "post_breach",
               signal_strength |-> 10]
    ELSE NoRecord

\* The rows of the HHS table: rest tells whether the cells after the first
\* hold data or are blank
HHSRows ==
    {[cells |-> 3, company_name |-> "Beta Health", rest |-> "data"],
     [cells |-> 2, company_name |-> "Beta Health", rest |-> "data"],
     [cells |-> 3, company_name |-> "Loading...", rest |-> "blank"],
     [cells |-> 3, company_name |-> "Name of Covered Entity",
      rest |-> "data"]}

\* parse_hhs_row(cell_text)
parse_hhs_row(row) ==
    IF row.cells >= 3
    THEN IF row.company_name = ""
            \/ LowerName(row.company_name)
                 \in {"name of covered entity", "loading...", ""}
         THEN NoRecord
         ELSE [company_name |-> row.company_name, breach_date |-> "",
               source |-> "hhs_hipaa", signal_type |-> "healthcare_breach",
               signal_strength |-> 8]
    ELSE NoRecord

\* What a source may answer
NoResponse == [kind |-> "none", rows |-> <<>>]
RequestRaised == [kind |-> "raised", rows |-> <<>>]
NoTable == [kind |-> "no_table", rows |-> <<>>]
Table(rows) == [kind |-> "table", rows |-> rows]

CAResponses ==
    {RequestRaised, NoTable} \cup {Table(rows) : rows \in SeqsUpTo(CARows, MaxRows)}

HHSResponses ==
    {RequestRaised, NoTable}
    \cup {Table(rows) : rows \in SeqsUpTo(HHSRows, MaxHHSRows)}

\* [parse(row) for row in rows], without the rows parse gives None for
RECURSIVE ParsedRows(_, _)
ParsedRows(rows, hhs) ==
    IF rows = <<>> THEN <<>>
    ELSE LET breach == IF hhs THEN parse_hhs_row(Head(rows))
                       ELSE parse_breach_row(Head(rows))
         IN  (IF breach = NoRecord THEN <<>> ELSE <<breach>>)
             \o ParsedRows(Tail(rows), hhs)

\* rows[1:]
Rest(rows) == IF rows = <<>> THEN <<>> ELSE Tail(rows)

\* collect_ca_breaches: the list it returns for the response
collect_ca_breaches(response) ==
    IF response.kind = "table"
    THEN ParsedRows(Rest(response.rows), FALSE)
    ELSE <<>>

\* The row holds breach data: three cells or more, not all of them empty,
\* not all of them placeholders
HasBreachData(row) ==
    /\ row.cells >= 3
    /\ row.company_name # "" \/ row.rest = "data"
    /\ ~(/\ LowerName(row.company_name) \in {"", "loading...", "no data"}
         /\ row.rest = "blank")

\* collect_hhs_breaches: the list it returns for the response, a page with
\* one table
collect_hhs_breaches(response) ==
    IF response.kind = "table" /\ Len(response.rows) > 3
    THEN ParsedRows(SelectSeq(Rest(response.rows), HasBreachData), TRUE)
    ELSE <<>>

\* A wrapper without the except clause: the exception leaves it.
TryCollect_Propagate(outcome) ==
    IF outcome = "raised" THEN Raised ELSE Returned(1)

\* try: collector.run_collection(); return True
\* except Exception: return False -- the value as 1 or 0
TryCollect(outcome) ==
    IF outcome = "raised" THEN Returned(0) ELSE Returned(1)

ResultKeys ==
    <<"breach_data", "job_data", "threat_data", "insurance_data",
      "company_analysis">>

\* breaches = self.collect_ca_breaches()
CollectCABreaches ==
    /\ dc_pc = "start"
    /\ \E response \in CAResponses :
         /\ dc_response' = response
         /\ dc_ca_breaches' = collect_ca_breaches(response)
         /\ dc_failed' = IF response.kind = "raised"
                         THEN dc_failed \cup {"california_ag"}
                         ELSE dc_failed
    /\ dc_pc' = "ca_collected"
    /\ UNCHANGED <<outsideDaily, dc_hhs_breaches, dc_results>>

\* all_breaches.extend(self.collect_hhs_breaches())
CollectHHSBreaches ==
    /\ dc_pc = "ca_collected"
    /\ \E response \in HHSResponses :
         /\ dc_response' = response
         /\ dc_hhs_breaches' = collect_hhs_breaches(response)
         /\ dc_failed' = IF response.kind = "raised"
                         THEN dc_failed \cup {"hhs_hipaa"}
                         ELSE dc_failed
    /\ dc_pc' = "hhs_collected"
    /\ UNCHANGED <<outsideDaily, dc_ca_breaches, dc_results>>

\* One entry of the results dict: the wrapper of position i runs its
\* collector, which returns or raises
CollectData(i, next) ==
    /\ \E outcome \in {"returned", "raised"} :
         LET result == TryCollect(outcome) IN
         /\ dc_failed' = IF outcome = "raised"
                         THEN dc_failed \cup {ResultKeys[i]}
                         ELSE dc_failed
         /\ IF result.raised
            THEN /\ dc_pc' = "raised"
                 /\ UNCHANGED dc_results
            ELSE /\ dc_pc' = next
                 /\ dc_results' = Append(dc_results,
                                         [key |-> ResultKeys[i],
                                          value |-> result.value])
    /\ dc_response' = NoResponse
    /\ UNCHANGED <<outsideDaily, dc_ca_breaches, dc_hhs_breaches>>

\* 'breach_data': self._collect_breach_data(): the rest of run_collection
_collect_breach_data ==
    /\ dc_pc = "hhs_collected"
    /\ CollectData(1, "job_data")

_collect_job_data ==
    /\ dc_pc = "job_data"
    /\ CollectData(2, "threat_data")

_collect_threat_data ==
    /\ dc_pc = "threat_data"
    /\ CollectData(3, "insurance_data")

_collect_insurance_data ==
    /\ dc_pc = "insurance_data"
    /\ CollectData(4, "company_analysis")

_analyze_existing_companies ==
    /\ dc_pc = "company_analysis"
    /\ CollectData(5, "collected")

\* return results
ReturnResults ==
    /\ dc_pc = "collected"
    /\ dc_pc' = "returned"
    /\ UNCHANGED <<outsideDaily, dc_response, dc_ca_breaches, dc_hhs_breaches,
                   dc_failed, dc_results>>

DailyInit ==
    /\ dc_pc = "start"
    /\ dc_response = NoResponse
    /\ dc_ca_breaches = <<>>
    /\ dc_hhs_breaches = <<>>
    /\ dc_failed = {}
    /\ dc_results = <<>>

InitDaily == BcOff /\ ScOff /\ OrOff /\ DmOff /\ DailyInit /\ RsOff /\ RlOff /\ SgOff

NextDaily ==
    \/ CollectCABreaches
    \/ CollectHHSBreaches
    \/ _collect_breach_data
    \/ _collect_job_data
    \/ _collect_threat_data
    \/ _collect_insurance_data
    \/ _analyze_existing_companies
    \/ ReturnResults

SpecDaily == InitDaily /\ [][NextDaily]_vars

(***************************************************************************)
(* _score_single_company called again for a company and signals that it    *)
(* has scored before (SpecRescore). As under SpecOrch, the datastore keeps *)
(* one company_universe row per domain and every add_row on                *)
(* scored_prospects adds a row.                                            *)
(***************************************************************************)
MaxScorings == 2

\* The company rows, signal sets and roundings one call may meet
RescoreInputs ==
    {in \in [company : CompanyRows \ {EmptyRow}, signals : SignalSets,
             round_off : {-1, 0, 1}] :
        LET score_data == calculate_company_score({in.company}, "acme.com",
                                                  in.signals, 0)
        IN  IF score_data.raised THEN in.round_off = 0
            ELSE in.round_off \in RoundOffs(score_data.individual_scores)}

\* The tables <<scored_prospects, company_universe row>> after one call of
\* _score_single_company
_score_single_company(in, prospects, universe_row) ==
    LET score_data == ScoreData({in.company}, "acme.com", in.signals,
                                in.round_off)
    IN  IF score_data.raised
        THEN <<prospects, universe_row>>
        ELSE IF score_data.pain_score >= MIN_PAIN_SCORE * 1000
        THEN <<Append(prospects, score_data), "scored">>
        ELSE <<prospects, "scored">>

\* scored_prospect = self._score_single_company(company)
ScoreSingleCompany ==
    /\ rs_runs < MaxScorings
    /\ LET tables == _score_single_company(rs_input, rs_scored_prospects,
                                           rs_company_universe)
       IN  /\ rs_scored_prospects' = tables[1]
           /\ rs_company_universe' = tables[2]
           /\ rs_once' = IF rs_runs = 0 THEN tables ELSE rs_once
    /\ rs_runs' = rs_runs + 1
    /\ UNCHANGED <<outsideRescore, rs_input>>

RescoreInit ==
    /\ rs_input \in RescoreInputs
    /\ rs_runs = 0
    /\ rs_scored_prospects = <<>>
    /\ rs_company_universe = "unscored"
    /\ rs_once = <<>>

InitRescore == BcOff /\ ScOff /\ OrOff /\ DmOff /\ DcOff /\ RescoreInit /\ RlOff /\ SgOff

NextRescore == ScoreSingleCompany

SpecRescore == InitRescore /\ [][NextRescore]_vars

(***************************************************************************)
(* RateLimiter (src/src/clay_client.py), used by one thread                *)
(* (SpecLimiter). Time is counted in tenths of a second; calls and period  *)
(* are those of a small limiter.                                           *)
(***************************************************************************)
calls == 2
period == 3
MaxTime == 9
MaxInvocations == 4

\* A limiter that never sleeps.
sleep_time_None(now, oldest) == 0

\* sleep_time = self.period - (now - self.timestamps[0]) + 0.1
sleep_time(now, oldest) == period - (now - oldest) + 1

\* [t for t in self.timestamps if now - t < self.period]
RecentTimestamps(timestamps, now) ==
    SelectSeq(timestamps, LAMBDA t : now - t < period)

\* wait_if_needed entered at time now: the timestamp it waits on (-1 when
\* it does not wait) and the time at which it wakes up
wait_if_needed(timestamps, now) ==
    LET recent == RecentTimestamps(timestamps, now)
    IN  IF Len(recent) >= calls /\ sleep_time(now, recent[1]) > 0
        THEN [oldest |-> recent[1],
              woke |-> now + sleep_time(now, recent[1])]
        ELSE [oldest |-> -1, woke |-> now]

\* Time passes between two calls.
Tick ==
    /\ rl_clock < MaxTime
    /\ rl_clock' = rl_clock + 1
    /\ UNCHANGED <<outsideLimiter, rl_timestamps, rl_returned, rl_oldest>>

\* self.rate_limiter.wait_if_needed(): the whole call; late is the time
\* that passes until time.time() is read for the new timestamp
WaitIfNeeded ==
    /\ Len(rl_returned) < MaxInvocations
    /\ \E late \in {0, 1} :
         LET wait == wait_if_needed(rl_timestamps, rl_clock)
             stamp == wait.woke + late
         IN  /\ stamp <= MaxTime
             /\ rl_timestamps' =
                   Append(RecentTimestamps(rl_timestamps, rl_clock), stamp)
             /\ rl_returned' = Append(rl_returned, stamp)
             /\ rl_oldest' = wait.oldest
             /\ rl_clock' = stamp
    /\ UNCHANGED outsideLimiter

LimiterInit ==
    /\ rl_clock = 0
    /\ rl_timestamps = <<>>
    /\ rl_returned = <<>>
    /\ rl_oldest = -1

InitLimiter == BcOff /\ ScOff /\ OrOff /\ DmOff /\ DcOff /\ RsOff /\ LimiterInit /\ SgOff

NextLimiter ==
    \/ Tick
    \/ WaitIfNeeded

SpecLimiter == InitLimiter /\ [][NextLimiter]_vars

(***************************************************************************)
(* EDPScorer.assign_segment called twice with the same signals and scores  *)
(* (SpecResolve). What the call reads besides its arguments is the         *)
(* company_universe row of the domain and datetime.now(); at the second    *)
(* call the row may be another one and days may have passed.               *)
(***************************************************************************)
MaxResolveSignals == 1
DaysBetweenCalls == 80

\* A clock under which every signal is older by the days on top of those
\* that passed.
Aged_SetForward(signals, days) ==
    [i \in 1..Len(signals) |->
        [signals[i] EXCEPT !.signal_date.days_ago = @ + days + DaysBetweenCalls]]

\* (datetime.now() - signal_date).days of each signal when days have passed
\* since days_ago was taken
Aged(signals, days) ==
    [i \in 1..Len(signals) |->
        [signals[i] EXCEPT !.signal_date.days_ago = @ + days]]

\* second = self.assign_segment(signals, scores)
AssignSegmentAgain ==
    /\ sc_pc = "assigned"
    /\ sg_again' = assign_segment(Universe(sg_hidden.company),
                                  Aged(sc_signals, sg_hidden.days),
                                  sc_scores)
    /\ sc_pc' = "again"
    /\ UNCHANGED <<outsideScoring, sc_company, sc_signals, sc_scores,
                   sc_segment, sc_result, sg_hidden>>

ResolveInit ==
    /\ sc_pc = "start"
    /\ sc_company \in SegmentCompanyRows
    /\ sc_signals \in SeqsUpTo(SignalRows, MaxResolveSignals)
    /\ sc_scores \in ScoreGrid
    /\ sc_segment = ""
    /\ sc_result = NoScoreData
    /\ sg_hidden \in [company : {sc_company,
                                 CompanyRow({"employee_count"}, "", 500)},
                      days : {0, DaysBetweenCalls}]
    /\ sg_again = ""

InitResolve == BcOff /\ ResolveInit /\ OrOff /\ DmOff /\ DcOff /\ RsOff /\ RlOff

NextResolve ==
    \/ AssignSegment
    \/ AssignSegmentAgain

SpecResolve == InitResolve /\ [][NextResolve]_vars

(***************************************************************************)
(* JobPostingCollector (src/src/collectors/job_collector.py): the signal   *)
(* type given to a job posting, and the pain_signals row push_to_clay      *)
(* writes for it, scored by EDPScorer (SpecJobs).                          *)
(***************************************************************************)
JobTitles == {"Security Analyst", "SOC Engineer", "ciso", "Director of Security"}

\* any(term in title.upper() for term in ['CISO', 'CHIEF', 'DIRECTOR'])
is_executive(title) == title \in {"ciso", "Director of Security"}

categorize_vacancy_signal(days_open, title) ==
    IF days_open > 60
    THEN IF is_executive(title) THEN "executive_vacancy_critical"
         ELSE "skills_gap_critical"
    ELSE IF days_open > 30
    THEN IF is_executive(title) THEN "executive_vacancy_moderate"
         ELSE "skills_gap_moderate"
    ELSE "recent_posting"

\* calculate_days_open for the postings of the model
DaysOpen == {10, 30, 31, 60, 61, 90, 91}

\* process_job_posting, then the signal record of push_to_clay: raw_data
\* is the job with its days_open, signal_date is now
JobSignal(days_open, title) ==
    Signal(categorize_vacancy_signal(days_open, title), IsoDate(0), days_open)

JobSignals == {JobSignal(days_open, title) : days_open \in DaysOpen, title \in JobTitles}

JobsInit ==
    /\ sc_pc = "start"
    /\ sc_company \in CompanyRows
    /\ sc_signals \in SeqsUpTo(JobSignals, MaxSignals)
    /\ sc_scores = NoScores
    /\ sc_segment = ""
    /\ sc_result = NoScoreData

InitJobs == BcOff /\ JobsInit /\ OrOff /\ DmOff /\ DcOff /\ RsOff /\ RlOff /\ SgOff

SpecJobs == InitJobs /\ [][NextScore]_vars

(***************************************************************************)
(* Claims about the dedup ledger and run_collection (under Spec).          *)
(***************************************************************************)

\* The hashes of the records of new_breaches[p] that were in a batch the
\* webhook accepted during this run.
AcceptedHashes(p) ==
    UNION {HashesOf(batches[p][k].records) :
             k \in {j \in 1..Len(batches[p]) : batches[p][j].accepted}}

\* C1: a record's hash is committed to the ledger only after the delivery
\* of the batch containing it succeeded: whenever a step of a run adds a
\* hash to the persisted ledger, a batch of that run carrying the hash was
\* accepted by the webhook (so a record whose delivery failed, or that was
\* not sent for want of a webhook URL, stays out of the ledger and is new
\* again in the next run).
C1_CommitOnlyAfterDelivery ==
    [][\A h \in PersistedHashes(ledger_file') \ PersistedHashes(ledger_file) :
          \E p \in runners : bc_pc[p] = "marking" /\ h \in AcceptedHashes(p)]_vars

FilteredWithLedger(p) ==
    /\ bc_pc[p] = "pushing"
    /\ batches[p] = <<>>
    /\ load_result[p] = "ok"

C6_LedgerAppendOnly ==
    [][PersistedHashes(ledger_file) \subseteq PersistedHashes(ledger_file')]_vars

\* Runner p steps through filter_new_breaches with a ledger it cannot read.
FilterWithUnreadableLedger(p) ==
    /\ bc_pc[p] = "collected"
    /\ bc_pc'[p] # "collected"
    /\ load_result'[p] = "error"

\* C16: when the ledger file cannot be read or parsed, filter_new_breaches
\* takes the ledger as empty: every submitted record is classified new,
\* none is dropped, and run_collection goes on to push them (no error
\* reaches the caller).
C16_UnreadableLedgerIsEmpty ==
    [][\A p \in runners :
          FilterWithUnreadableLedger(p) =>
              /\ new_breaches'[p] = all_breaches[p]
              /\ bc_pc'[p] = "pushing"]_vars

\* C16 witness: the ledger file holds the hash of a submitted record, the
\* read failed, and the record was classified new with all the others.
C16_Witness ==
    \E p \in runners :
        /\ bc_pc[p] = "pushing"
        /\ batches[p] = <<>>
        /\ load_result[p] = "error"
        /\ HashesOf(all_breaches[p]) \cap PersistedHashes(ledger_file) # {}
        /\ new_breaches[p] = all_breaches[p]

\* The webhook answered the POST with a status of the 2xx class.
Answered2xx(response) ==
    /\ ~response.raised
    /\ response.status_code >= 200
    /\ response.status_code < 300

\* C18: send_to_webhook reports a batch as accepted for every 2xx status
\* and as a failure for every other status, timeout or exception.
C18_AcceptedIff2xx ==
    \A p \in runners :
        \A k \in 1..Len(batches[p]) :
            batches[p][k].accepted <=> Answered2xx(batches[p][k].response)

\* Two records report the same event: they agree on company_name,
\* breach_date and source.
SameEvent(a, b) ==
    /\ a.company_name = b.company_name
    /\ a.breach_date = b.breach_date
    /\ a.source = b.source

\* C20: the dedup classification of a record depends only on company_name,
\* breach_date and source: in every filter_new_breaches, two records that
\* agree on the three fields are classified alike whatever their other
\* fields, and a record is a duplicate when the ledger that was read holds
\* the hash of any record of the same event, such as the event as it was
\* sent before its re-enrichment.
C20_ClassificationByKeyFields ==
    [][\A p \in runners :
          (bc_pc[p] = "collected" /\ bc_pc'[p] # "collected") =>
              \A i \in 1..Len(all_breaches[p]) :
                 LET b == all_breaches[p][i] IN
                 /\ \A j \in 1..Len(all_breaches[p]) :
                       SameEvent(b, all_breaches[p][j]) =>
                          (Occurrences(new_breaches'[p], b) = 0
                             <=> Occurrences(new_breaches'[p],
                                             all_breaches[p][j]) = 0)
                 /\ (/\ load_result'[p] = "ok"
                     /\ \E a \in BreachRecords :
                           /\ SameEvent(a, b)
                           /\ _get_breach_hash(a)
                                \in PersistedHashes(ledger_file))
                       => Occurrences(new_breaches'[p], b) = 0]_vars

\* C20 witness: a later run collected the same event with two different
\* signal_strength values; the ledger holds the event's hash and both
\* records were classified duplicate.
C20_Witness ==
    \E p \in runners :
        /\ bc_pc[p] = "done"
        /\ runs[p] >= 1
        /\ load_result[p] = "ok"
        /\ new_breaches[p] = <<>>
        /\ \E i, j \in 1..Len(all_breaches[p]) :
              /\ SameEvent(all_breaches[p][i], all_breaches[p][j])
              /\ all_breaches[p][i].signal_strength
                    # all_breaches[p][j].signal_strength
              /\ _get_breach_hash(all_breaches[p][i])
                    \in PersistedHashes(ledger_file)

(***************************************************************************)
(* Claims about scoring (SpecScore, SpecSegment)                           *)
(***************************************************************************)
\* C3: the score result of a company whose signal set holds an
\* active_ransomware record has pain_score 100 and primary_edp
\* active_ransomware, whatever the other signals and the sub-scores are.
C3_RansomwareForcesMaximum ==
    (sc_pc = "final" /\ HasRansomwareSignal(sc_signals)) =>
        /\ sc_result.pain_score = 100 * 1000
        /\ sc_result.primary_edp = "active_ransomware"

\* C3 witness: a score result for a ransomware victim with a second signal,
\* whose sub-scores put dwell_time first and sum to less than 100.
C3_Witness ==
    /\ sc_pc = "final"
    /\ HasRansomwareSignal(sc_signals)
    /\ \E i \in 1..Len(sc_signals) :
          sc_signals[i].signal_type # "active_ransomware"
    /\ PrimaryEdp(sc_result.individual_scores) = "dwell_time"
    /\ WeightedTotal(sc_result.individual_scores) < 10000
    /\ sc_result.pain_score = 100 * 1000

\* Rule 1 of the decision list as the specification words it: some
\* breach-type signal is dated within 90 days.
BreachWithin90Days(signals) ==
    \E i \in 1..Len(signals) :
        /\ Contains(signals[i].signal_type, "breach")
        /\ signals[i].signal_date.form = "iso"
        /\ signals[i].signal_date.days_ago < 90

\* The employee_count rule 5 tests: the count on the company_universe row
\* of the signals' domain, 0 when there is no such row, no count on it, or
\* no signal to take the domain from.
RecordedEmployeeCount ==
    IF sc_signals = <<>> THEN 0 ELSE Get(sc_company, "employee_count", 0)

\* The label of the first matching rule, in the order of the specification.
FirstMatchingRule ==
    CASE BreachWithin90Days(sc_signals) -> "post_breach_survivor"
      [] ~BreachWithin90Days(sc_signals) /\ sc_scores.skills_gap > 70 ->
            "skills_gap_sufferer"
      [] ~BreachWithin90Days(sc_signals) /\ sc_scores.skills_gap <= 70
         /\ sc_scores.insurance > 70 -> "insurance_pressured"
      [] ~BreachWithin90Days(sc_signals) /\ sc_scores.skills_gap <= 70
         /\ sc_scores.insurance <= 70 /\ sc_scores.dwell_time > 60 ->
            "resource_constrained"
      [] ~BreachWithin90Days(sc_signals) /\ sc_scores.skills_gap <= 70
         /\ sc_scores.insurance <= 70 /\ sc_scores.dwell_time <= 60
         /\ RecordedEmployeeCount < 500 -> "overwhelmed_generalist"
      [] OTHER -> "general_prospect"

MalformedDate(signal) == signal.signal_date.form \in {"missing", "empty", "text"}

\* C8: a signal whose signal_date is missing or unparseable never makes the
\* scoring of its company fail: calculate_company_score returns a result.
C8_MalformedDateNeverFails ==
    (\E i \in 1..Len(sc_signals) : MalformedDate(sc_signals[i])) =>
        sc_pc # "failed"

\* C10: each of the five sub-scores of a score result lies in [0, 1] and
\* its pain_score in [0, 100].
C10_ScoresInRange ==
    sc_pc \in {"calculated", "final"} =>
        /\ \A i \in 1..5 :
              /\ sc_result.individual_scores[EDPNames[i]] >= 0
              /\ sc_result.individual_scores[EDPNames[i]] <= 100
        /\ sc_result.pain_score >= 0
        /\ sc_result.pain_score <= 100 * 1000

\* C10 witness: a score result where the vacancy bonuses add up to more
\* than 1.0 and the size tier times the industry multiplier exceeds 1.0.
C10_Witness ==
    /\ sc_pc = "calculated"
    /\ SumBonus(SignalsWith(sc_signals, "vacancy")) > 100
    /\ sc_result.individual_scores.skills_gap = 100
    /\ Get(sc_company, "employee_count", 0) = 6000
    /\ Get(sc_company, "industry", "") = "healthcare"
    /\ sc_result.individual_scores.breach_cost = 100

\* C11: when no rule before the size rule matches, the segment is
\* overwhelmed_generalist exactly when the employee_count on the company's
\* own company_universe row is below 500 and general_prospect otherwise,
\* also when the signal set is empty.
C11_OwnEmployeeCountDecides ==
    (/\ sc_pc = "assigned"
     /\ sc_segment \in {"overwhelmed_generalist", "general_prospect"}
     /\ "employee_count" \in sc_company.keys) =>
        (sc_segment = "overwhelmed_generalist"
            <=> sc_company.employee_count < 500)

\* The sub-scores and the pain_score the code computes for a company
\* without signals: the three tool gaps of the tech stack in dwell_time,
\* the industry bonuses in after_hours and insurance, the size tier times
\* the industry multiplier in breach_cost.
EmptySetScores(company) ==
    LET industry == Get(company, "industry", "")
        employees == Get(company, "employee_count", 100)
        tier == IF employees > 5000 THEN 80
                ELSE IF employees > 1000 THEN 60
                ELSE IF employees > 500 THEN 40
                ELSE 30
    IN  [dwell_time |-> 70,
         skills_gap |-> 0,
         after_hours |->
             IF industry \in {"healthcare", "finance",
                              "critical_infrastructure"}
             THEN 70 ELSE 50,
         insurance |-> IF industry \in {"healthcare", "finance"}
                       THEN 30 ELSE 0,
         breach_cost |->
             Min(100, (tier * IndustryMultiplier(industry)) \div 10)]

C13_PrimaryEdpFirstMaximum ==
    sc_pc = "calculated" =>
        \E i \in 1..5 :
            /\ sc_result.primary_edp = EDPNames[i]
            /\ \A j \in 1..5 :
                  sc_result.individual_scores[EDPNames[j]]
                      <= sc_result.individual_scores[EDPNames[i]]
            /\ \A j \in 1..(i - 1) :
                  sc_result.individual_scores[EDPNames[j]]
                      < sc_result.individual_scores[EDPNames[i]]

\* C13 witness: skills_gap, insurance and breach_cost share the maximum 1.0
\* above dwell_time, and skills_gap is chosen.
C13_Witness ==
    /\ sc_pc = "calculated"
    /\ sc_result.individual_scores.dwell_time < 100
    /\ sc_result.individual_scores.skills_gap = 100
    /\ sc_result.individual_scores.breach_cost = 100
    /\ sc_result.primary_edp = "skills_gap"

(***************************************************************************)
(* Claims about the orchestrator (SpecOrch)                                *)
(***************************************************************************)
\* C2: a company that met MIN_PAIN_SCORE and was cut off by the exhausted
\* counter is offered to campaign generation again in the next run, after
\* the counter was reset.
C2_DeferredOfferedAgain == missed = {}

\* A step that writes campaigns to outreach_queue: a company is admitted.
Admits == outreach_queue' # outreach_queue

MayFallShort(domain) ==
    \E round_off \in {-1, 0, 1} :
        LET score_data == ScoreData({RowFor(domain)}, domain,
                                    SignalsFor(domain), round_off)
        IN  ~score_data.raised
            /\ score_data.pain_score < MIN_PAIN_SCORE * 1000

HasWebsite(signal_data) == websiteUrl(signal_data) \notin {None, <<>>}

\* The canonical domain of a website: without the scheme, without a
\* leading www., without trailing slashes, in lower case.
CanonicalDomain(url) ==
    LET host == lower(rstrip(replace(replace(url, https), http)))
    IN  IF StartsWithAt(host, 1, www)
        THEN SubSeq(host, Len(www) + 1, Len(host))
        ELSE host

\* C14: extract_domain_from_url returns the website without its scheme,
\* its leading www. and its trailing slash, in lower case, so that
\* https://www.Example.com/, example.com and http://example.com all give
\* example.com.
C14_CanonicalDomain ==
    (dm_pc.url = "done" /\ HasWebsite(dm_signal_data)) =>
        dm_url_domain = CanonicalDomain(websiteUrl(dm_signal_data))

\* C15: extract_domain_from_url and ClayClient.extract_domain return the
\* same domain for the same website, so that www.Acme.com/ and acme.com
\* are filed under one domain key.
C15_ExtractorsAgree ==
    (/\ dm_pc.url = "done"
     /\ dm_pc.clay = "done"
     /\ HasWebsite(dm_signal_data)) =>
        dm_url_domain = dm_clay_domain

(***************************************************************************)
(* Claims about run_daily_collection and the breach sources (SpecDaily)    *)
(***************************************************************************)
\* The list is one a collector may hand on: each entry is a record with a
\* company name.
RecordsWithCompanyName(breaches) ==
    \A i \in 1..Len(breaches) :
        breaches[i] # NoRecord /\ breaches[i].company_name # ""

\* C17: a failure inside one source stays inside it: collect_ca_breaches
\* and collect_hhs_breaches return a list, empty when the request raised
\* or the page held no table, whose records all have a company_name;
\* run_daily_collection never raises because a collector did, runs all five
\* collectors and returns a result for each.
C17_FailureIsolated ==
    /\ dc_pc # "raised"
    /\ (dc_pc = "ca_collected" /\ dc_response.kind # "table") =>
           dc_ca_breaches = <<>>
    /\ (dc_pc = "hhs_collected" /\ dc_response.kind # "table") =>
           dc_hhs_breaches = <<>>
    /\ RecordsWithCompanyName(dc_ca_breaches)
    /\ RecordsWithCompanyName(dc_hhs_breaches)
    /\ dc_pc = "returned" =>
           /\ Len(dc_results) = Len(ResultKeys)
           /\ \A i \in 1..Len(ResultKeys) :
                 /\ dc_results[i].key = ResultKeys[i]
                 /\ dc_results[i].value = IF ResultKeys[i] \in dc_failed
                                          THEN 0 ELSE 1

\* C17 witness: the California request raised and the breach collection
\* and the job collection failed; the HHS records were still collected,
\* the three other collectors ran and run_daily_collection returned its
\* five results.
C17_Witness ==
    /\ dc_pc = "returned"
    /\ {"california_ag", "breach_data", "job_data"} \subseteq dc_failed
    /\ dc_ca_breaches = <<>>
    /\ dc_hhs_breaches # <<>>
    /\ Len(dc_results) = 5
    /\ dc_results[1].value = 0
    /\ dc_results[5].value = 1

(***************************************************************************)
(* Claims about repeated scoring (SpecRescore)                             *)
(***************************************************************************)
\* C19: the datastore writes of the scoring pass are idempotent: after
\* _score_single_company has run twice for the same company with the same
\* signals, scored_prospects and company_universe are as the first run
\* left them.
C19_ScoringWritesIdempotent ==
    rs_runs = 2 =>
        <<rs_scored_prospects, rs_company_universe>> = rs_once

(***************************************************************************)
(* Claims about the rate limiter (SpecLimiter)                             *)
(***************************************************************************)
\* The calls that returned in the window of length period that starts at w
ReturnedWithin(w) ==
    {i \in 1..Len(rl_returned) :
        w <= rl_returned[i] /\ rl_returned[i] < w + period}

\* C21: in any time window of length period at most calls invocations of
\* wait_if_needed return, and an invocation that had to wait returned only
\* after the oldest recorded call had left the window.
C21_AtMostCallsPerPeriod ==
    /\ \A w \in 0..MaxTime : Cardinality(ReturnedWithin(w)) <= calls
    /\ rl_oldest # -1 =>
          rl_returned[Len(rl_returned)] - rl_oldest >= period

\* C21 witness: the limit was reached, a call waited on the oldest
\* timestamp and returned, and a window holds exactly calls returns.
C21_Witness ==
    /\ rl_oldest # -1
    /\ Len(rl_returned) > calls
    /\ \E w \in 0..MaxTime : Cardinality(ReturnedWithin(w)) = calls

(***************************************************************************)
(* Claims about repeated segment resolution (SpecResolve)                  *)
(***************************************************************************)
\* The second call read the same company row on the same day as the first.
SameRowAndDate == sg_hidden.company = sc_company /\ sg_hidden.days = 0

SubScores == {sc_result.individual_scores[EDPNames[i]] : i \in 1..5}

\* C23: the five EDP weights sum to exactly 1.0 (100 hundredths), so the
\* weighted total of a score result is a weighted mean of its sub-scores:
\* it lies between the smallest and the largest of them.
C23_WeightsSumToOne ==
    /\ weights.dwell_time + weights.skills_gap + weights.after_hours
       + weights.insurance + weights.breach_cost = 100
    /\ sc_pc = "calculated" =>
          /\ \E low \in SubScores :
                WeightedTotal(sc_result.individual_scores) >= 100 * low
          /\ \E high \in SubScores :
                WeightedTotal(sc_result.individual_scores) <= 100 * high

\* C23 witness: a score result with five sub-scores that are not all equal,
\* every one of them weighted into a total strictly between the smallest
\* and the largest.
C23_Witness ==
    /\ sc_pc = "calculated"
    /\ \A i \in 1..5 : sc_result.individual_scores[EDPNames[i]] > 0
    /\ \E low, high \in SubScores :
          /\ \A s \in SubScores : low <= s /\ s <= high
          /\ 100 * low < WeightedTotal(sc_result.individual_scores)
          /\ WeightedTotal(sc_result.individual_scores) < 100 * high

\* C24: in every reachable state daily_limit_remaining is at least 0, and
\* no more than OUTREACH_DAILY_LIMIT campaigns are written to
\* outreach_queue after a reset of the counter. In the first job, the
\* initial cycle, the whole of outreach_queue was written after the reset.
C24_LimitNeverExceeded ==
    /\ daily_limit_remaining >= 0
    /\ jobs_run = 0 => Len(outreach_queue) <= OUTREACH_DAILY_LIMIT

\* ------------------------------------------------------------------
\* Claim about two runs on one ledger file
\* ------------------------------------------------------------------

\* The run of runner p has gone through mark_breaches_as_sent with both its
\* read and its write of the ledger file succeeding.
Committed(p) ==
    /\ bc_pc[p] = "done"
    /\ load_result[p] = "ok"
    /\ save_result[p] = "ok"

\* C25: when two collection runs on the same ledger file interleave their
\* load and save steps in any order, every hash either run committed is in
\* the ledger once both have finished.
C25_NoCommittedHashLost ==
    (\A p \in AllRunners : Committed(p)) =>
        \A p \in AllRunners :
            HashesOf(new_breaches[p]) \subseteq PersistedHashes(ledger_file)

\* C26: every score record written to scored_prospects carries the
\* recommendation get_recommendation assigns to its pain_score, so a
\* pain_score of 90 or more goes with immediate_outreach_priority, also
\* when the ransomware override was applied.
C26_RecommendationMatchesScore ==
    \A n \in 1..Len(scored_prospects) :
        /\ scored_prospects[n].recommendation
              = get_recommendation(scored_prospects[n].pain_score)
        /\ scored_prospects[n].pain_score >= 90 * 1000 =>
              scored_prospects[n].recommendation
                 = "immediate_outreach_priority"

\* The six labels of the decision list of assign_segment
SegmentLabels ==
    {"post_breach_survivor", "skills_gap_sufferer", "insurance_pressured",
     "resource_constrained", "overwhelmed_generalist", "general_prospect"}

\* The labels calculate_company_score returns over the company rows and
\* signal sets of SpecScore
ScoredSegments ==
    {calculate_company_score(Universe(company), "acme.com", signals, 0).segment :
        company \in CompanyRows, signals \in SignalSets}

\* C27: each of the six segment labels is returned by
\* calculate_company_score for some signal set and company row; no rule of
\* the decision list is dead. Stated of the scorer as it is while a
\* company is being scored.
C27_EveryLabelReachable ==
    sc_pc \in {"start", "calculated", "final", "failed"} =>
        SegmentLabels \subseteq ScoredSegments

\* ------------------------------------------------------------------
\* Claim about the signals of the job posting collector
\* ------------------------------------------------------------------

\* The days-open tier bonus of calculate_skills_gap_score
TierBonus(days_open) ==
    IF days_open > 90 THEN 40
    ELSE IF days_open > 60 THEN 30
    ELSE IF days_open > 30 THEN 20
    ELSE 0

\* C28: every signal type categorize_vacancy_signal gives a posting open
\* more than 30 days is a vacancy type for the scorer: the signal adds its
\* days-open tier bonus to skills_gap and the staffing bonus of 0.2 to
\* dwell_time (0.7 for the missing tools, 0.9 with the bonus).
C28_LongOpenPostingScoredAsVacancy ==
    sc_pc = "calculated" =>
        \A i \in 1..Len(sc_signals) :
            sc_signals[i].days_open > 30 =>
                /\ Contains(sc_signals[i].signal_type, "vacancy")
                /\ sc_result.individual_scores.skills_gap
                      >= Min(100, TierBonus(sc_signals[i].days_open))
                /\ sc_result.individual_scores.dwell_time = 90

\* The loop of generate_campaigns has stopped at the exhausted limit with
\* prospects left over.
CutOffByLimit ==
    /\ orch_pc = "campaign_loop"
    /\ ~shutdown_is_set(_shutdown_requested)
    /\ limit_reached(daily_limit_remaining)
    /\ campaign_k <= Len(valid_prospects)

\* C29: within one call of generate_campaigns, a prospect that had
\* campaigns created has a pain_score at least that of every valid prospect
\* the exhausted limit cuts off.
C29_ServedOutranksCutOff ==
    CutOffByLimit =>
        \A m \in 1..(campaign_k - 1), n \in campaign_k..Len(valid_prospects) :
            /\ \E q \in 1..Len(outreach_queue) :
                  outreach_queue[q].domain = valid_prospects[m].domain
            /\ valid_prospects[m].pain_score >= valid_prospects[n].pain_score

\* C29 witness: the prospect scored second had the higher pain_score, was
\* moved to the front by the sort and used up the limit; the prospect
\* scored first is cut off.
C29_Witness ==
    /\ CutOffByLimit
    /\ Len(qualified_prospects) = 2
    /\ valid_prospects = <<qualified_prospects[2], qualified_prospects[1]>>
    /\ valid_prospects[1].pain_score > valid_prospects[2].pain_score
    /\ campaign_k = 2
    /\ \A q \in 1..Len(outreach_queue) :
          outreach_queue[q].domain = valid_prospects[1].domain

\* ------------------------------------------------------------------
\* Claim about the batches of push_to_clay
\* ------------------------------------------------------------------

\* The records of a list of batches, one batch after the other
RECURSIVE RecordsSent(_)
RecordsSent(sent) ==
    IF sent = <<>> THEN <<>>
    ELSE Head(sent).records \o RecordsSent(Tail(sent))

\* ceil(n / BATCH_SIZE)
CeilOfBatches(n) ==
    CHOOSE k \in 0..n : k * BATCH_SIZE >= n /\ (k - 1) * BATCH_SIZE < n

\* C30: push_to_clay splits n records into ceil(n / batch_size)
\* consecutive batches of at most batch_size records: the batches one after
\* the other are the input list, record for record and in its order, and
\* the batch_number, total_batches and batch_size of every batch are those
\* of the split.
C30_BatchesPartitionInput ==
    \A p \in runners :
        /\ bc_pc[p] = "pushing" /\ webhook_url =>
              \A k \in 1..Len(batches[p]) :
                  /\ batches[p][k].batch_number = k
                  /\ batches[p][k].total_batches
                        = CeilOfBatches(Len(new_breaches[p]))
                  /\ batches[p][k].batch_size = Len(batches[p][k].records)
                  /\ batches[p][k].batch_size \in 1..BATCH_SIZE
        /\ bc_pc[p] = "pushed" /\ webhook_url =>
              /\ Len(batches[p]) = CeilOfBatches(Len(new_breaches[p]))
              /\ RecordsSent(batches[p]) = new_breaches[p]
              /\ \A k \in 1..Len(batches[p]) :
                    /\ batches[p][k].batch_number = k
                    /\ batches[p][k].total_batches = Len(batches[p])
                    /\ batches[p][k].batch_size = Len(batches[p][k].records)
                    /\ batches[p][k].batch_size \in 1..BATCH_SIZE

\* C30 witness: more records than one batch holds and not a multiple of the
\* batch size, sent as full batches and a last, shorter one.
C30_Witness ==
    \E p \in runners :
        /\ bc_pc[p] = "pushed" /\ webhook_url
        /\ Len(new_breaches[p]) > BATCH_SIZE
        /\ Len(new_breaches[p]) % BATCH_SIZE # 0
        /\ Len(batches[p]) >= 2
        /\ batches[p][1].batch_size = BATCH_SIZE
        /\ batches[p][Len(batches[p])].batch_size < BATCH_SIZE
        /\ new_breaches[p][1] # new_breaches[p][Len(new_breaches[p])]

====
